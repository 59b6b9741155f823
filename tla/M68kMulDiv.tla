----------------------------- MODULE M68kMulDiv -----------------------------
(***************************************************************************)
(* The multiplications, divisions, bound checks and compare-and-swap       *)
(* handlers of src/mushashi/m68k_in.c, built with M68K_USE_64_BIT.  The     *)
(* second word of the long forms is a record: l and h the registers of the *)
(* low and the high half, long (BIT_A) and signed (BIT_B).                 *)
(***************************************************************************)
EXTENDS M68kAlu

\* C's division truncates towards zero and its remainder has the sign of the
\* dividend; \div and % of TLA+ round down.
Quot(a, b) == LET q == (IF a < 0 THEN -a ELSE a) \div (IF b < 0 THEN -b ELSE b)
              IN  IF (a < 0) # (b < 0) THEN -q ELSE q

\* Mutant: the remainder of a floored division.
FlooredRem(a, b) == a % (IF b < 0 THEN -b ELSE b)

Rem(a, b) == a - b * Quot(a, b)

ZERO_DIVIDE == 5

CHK == 6

TRAPV == 7

\* MULS and MULU: word times word is a long.
Product(o) ==
    LET val(v) == IF IR.signed THEN Signed(Half(2), v) ELSE v % Mod(2)
    IN  Moved(o.c, D(IR.x), 4, Wrap(val(o.v) * val(o.c.d[IR.x])))

Mul == Is("mul") /\ Run(Product(Oper(Fetched, IR.ea, 2)))

\* A quotient that fits: it and the remainder are the halves of the register.
DivResult(c, q, r) ==
    LogicFlags(Put(c, D(IR.x), 4, (q % Mod(2)) + Mod(2) * (r % Mod(2))), 2, q)

\* The division of d by s: an overflow sets V and nothing else.
DivideWord(c, d, s, range) ==
    CASE s = 0 -> Raise(c, ZERO_DIVIDE)
      [] s # 0 /\ Quot(d, s) \in range -> DivResult(c, Quot(d, s), Rem(d, s))
      [] s # 0 /\ Quot(d, s) \notin range -> [c EXCEPT !.v = TRUE]

DivuBy(o) == DivideWord(o.c, o.c.d[IR.x], o.v, 0 .. Mod(2) - 1)

Divu == Is("divu") /\ Run(DivuBy(Oper(Fetched, IR.ea, 2)))

\* The most negative dividend and -1 is set apart: the answer is zero.
DivsBy(o) ==
    IF Signed(Half(2), o.v) = -1 /\ o.c.d[IR.x] = Half(4)
    THEN Moved(o.c, D(IR.x), 4, 0)
    ELSE DivideWord(o.c, Signed(Half(4), o.c.d[IR.x]), Signed(Half(2), o.v),
                    -Half(2) .. Half(2) - 1)

Divs == Is("divs") /\ Run(DivsBy(Oper(Fetched, IR.ea, 2)))

\* MULL: 32 x 32 -> 32 with V for what is lost, or -> 64.
MullResult(c, e, r) ==
    LET lo == Wrap(r)
        hi == (r \div Mod(4)) % Mod(4)
    IN  IF e.long
        THEN [Put(Put(c, D(e.h), 4, hi), D(e.l), 4, lo) EXCEPT
                 !.z = lo = 0 /\ hi = 0, !.n = NFlag(Half(4), hi), !.v = FALSE, !.c = FALSE]
        ELSE [Moved(c, D(e.l), 4, lo) EXCEPT
                 !.v = r # IF e.signed THEN Signed(Half(4), lo) ELSE lo]

MullOf(e, o) ==
    LET val(v) == IF e.signed THEN Signed(Half(4), v) ELSE v
    IN  MullResult(o.c, e, val(o.v) * val(o.c.d[e.l]))

Mull == Is("mull") /\ LET w == ReadExt(Fetched) IN Run(MullOf(w.v, Oper(w.c, IR.ea, 4)))

\* DIVL: a 64-bit quotient may overflow; the remainder is written first, so
\* with one register for both the quotient stays.
DivideLong(c, e, n, d) ==
    LET range == IF e.signed THEN -Half(4) .. Half(4) - 1 ELSE 0 .. Mod(4) - 1
    IN  CASE d = 0 -> Raise(c, ZERO_DIVIDE)
          [] d # 0 /\ e.long /\ Quot(n, d) \notin range -> [c EXCEPT !.v = TRUE]
          [] OTHER -> LogicFlags(Put(Put(c, D(e.h), 4, Wrap(Rem(n, d))),
                                     D(e.l), 4, Wrap(Quot(n, d))), 4, Quot(n, d))

DivlOf(e, o) ==
    LET wide == IF e.long THEN o.c.d[e.h] * Mod(4) + o.c.d[e.l] ELSE o.c.d[e.l]
        half == IF e.long THEN Half(8) ELSE Half(4)
    IN  DivideLong(o.c, e, IF e.signed THEN Signed(half, wide) ELSE wide,
                   IF e.signed THEN Signed(Half(4), o.v) ELSE o.v)

Divl == Is("divl") /\ LET w == ReadExt(Fetched) IN Run(DivlOf(w.v, Oper(w.c, IR.ea, 4)))

\* CHK: N changes only on the way to the exception.
CheckBound(c, src, bound) ==
    IF src \in 0 .. bound THEN [c EXCEPT !.z = src = 0, !.v = FALSE, !.c = FALSE]
    ELSE Raise([c EXCEPT !.z = src = 0, !.v = FALSE, !.c = FALSE, !.n = src < 0], CHK)

ChkOf(o) == CheckBound(o.c, Signed(Half(IR.sz), o.c.d[IR.x]), Signed(Half(IR.sz), o.v))

Chk == Is("chk") /\ Run(ChkOf(Oper(Fetched, IR.ea, IR.sz)))

\* CHK2 and CMP2.  The lower bound of a byte is compared with sign for a data
\* register and the upper without; a word has both signed for a data
\* register; a long has both unsigned.
Bounds(c, r, cmp, lo, hi) ==
    LET sz == IR.sz
        h == Half(sz)
        dif(a, b, sgn) == IF sgn THEN Signed(h, a) - Signed(h, b) ELSE a - b
        under == IF sz = 4 THEN CFlagSub32(h, lo, cmp, cmp - lo)
                 ELSE CFlag(h, dif(cmp, lo, r < 8))
        over == IF sz = 4 THEN CFlagSub32(h, cmp, hi, hi - cmp)
                ELSE CFlag(h, dif(hi, cmp, sz = 2 /\ r < 8))
    IN  [c EXCEPT !.z = cmp \in {lo, hi}, !.c = under \/ over]

Chk2Of(c, chk) == IF c.c /\ chk THEN Raise(c, CHK) ELSE c

Chk2At(e, w) ==
    LET r == IF w.r < 8 THEN e.c.d[w.r] ELSE e.c.a[w.r - 8]
    IN  Chk2Of(Bounds(e.c, w.r, r % Mod(IR.sz), Read(e.c, e.at, IR.sz),
                      Read(e.c, e.at + IR.sz, IR.sz)), w.chk)

Chk2Cmp2 == /\ Is("chk2cmp2")
            /\ LET w == ReadExt(Fetched) IN Run(Chk2At(Ea(w.c, IR.ea, IR.sz), w.v))

\* Mutant: the operand is written whatever the comparison said.
CasAlways(c, at, v, e) ==
    Put(IF c.z THEN c ELSE Put(c, D(e.c), IR.sz, v), at, IR.sz, Get(c, D(e.u), IR.sz))

\* CAS: the operand is replaced if it equals Dc, else it is loaded to Dc.
CasOn(c, at, v, e) ==
    IF c.z THEN Put(c, at, IR.sz, Get(c, D(e.u), IR.sz)) ELSE Put(c, D(e.c), IR.sz, v)

CasAt(l, v, e) ==
    CasOn(CmpFlags(l.c, IR.sz, Get(l.c, D(e.c), IR.sz), v), l.at, v, e)

CasOf(l, e) == CasAt(l, Get(l.c, l.at, IR.sz), e)

Cas == Is("cas") /\ LET w == ReadExt(Fetched) IN Run(CasOf(Loc(w.c, IR.ea, IR.sz), w.v))

\* CAS2: the second comparison is made only if the first succeeds, and both
\* memory operands are written or both compare registers are loaded.  A word
\* loaded to a compare register is sign extended when its pointer is an
\* address register.
Cas2 ==
    /\ Is("cas2")
    /\ LET w1 == ReadExt(Fetched)
           w2 == ReadExt(w1.c)
           c0 == w2.c
           ptr(e) == IF e.r < 8 THEN c0.d[e.r] ELSE c0.a[e.r - 8]
           old(e) == Read(c0, ptr(e), IR.sz)
           cmp(c, e) == CmpFlags(c, IR.sz, Get(c0, D(e.c), IR.sz), old(e))
           swap(c, e) == Write(c, ptr(e), IR.sz, c0.d[e.u])
           load(c, e) == IF IR.sz = 2 /\ e.r >= 8
                         THEN Put(c, D(e.c), 4, Signed(Half(2), old(e)))
                         ELSE Put(c, D(e.c), IR.sz, old(e))
           c1 == cmp(c0, w1.v)
           c2 == IF c1.z THEN cmp(c1, w2.v) ELSE c1
       IN  Run(IF c2.z THEN swap(swap(c2, w1.v), w2.v)
               ELSE load(load(c2, w1.v), w2.v))
=============================================================================
