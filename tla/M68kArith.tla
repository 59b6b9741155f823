----------------------------- MODULE M68kArith -----------------------------
(***************************************************************************)
(* The flag macros of the 68020 emulator (src/mushashi/m68kcpu.h).  A width *)
(* is given by its half range h: 2^7 for a byte, 2^15 for a word, 2^31 for  *)
(* a long.  A flag the code keeps as one bit of an unsigned int is the      *)
(* Boolean that bit stands for, and an exclusive or of two flags is #.      *)
(***************************************************************************)
EXTENDS Integers

\* MASK_OUT_ABOVE_8/16/32.
Low(h, r) == r % (2 * h)

\* MAKE_INT_8/16/32.
Signed(h, r) == IF Low(h, r) >= h THEN Low(h, r) - 2 * h ELSE Low(h, r)

\* NFLAG_8/16/32: the top bit of the width.
NFlag(h, r) == Low(h, r) >= h

\* CFLAG_8/16: the bit above the width, in the unmasked sum or difference.
CFlag(h, r) == (r \div (2 * h)) % 2 = 1

\* CFLAG_ADD_32: there is no bit above 32, so the carry is worked out from
\* the top bits of the operands and of the result.
CFlagAdd32(h, s, d, r) ==
    \/ NFlag(h, s) /\ NFlag(h, d)
    \/ ~NFlag(h, r) /\ (NFlag(h, s) \/ NFlag(h, d))

\* Mutant: the borrow forgets that the destination may be the larger one.
BorrowWithoutDst(h, s, d, r) == NFlag(h, s) /\ NFlag(h, r)

\* CFLAG_SUB_32.
CFlagSub32(h, s, d, r) ==
    \/ NFlag(h, s) /\ NFlag(h, r)
    \/ ~NFlag(h, d) /\ (NFlag(h, s) \/ NFlag(h, r))

\* VFLAG_ADD_8/16/32.
VFlagAdd(h, s, d, r) ==
    /\ NFlag(h, s) # NFlag(h, r)
    /\ NFlag(h, d) # NFlag(h, r)

\* VFLAG_SUB_8/16/32.
VFlagSub(h, s, d, r) ==
    /\ NFlag(h, s) # NFlag(h, d)
    /\ NFlag(h, r) # NFlag(h, d)

\* The COND_ macros, on flags f: a Boolean for every condition.
Cond(f) == [cs |-> f.c, cc |-> ~f.c, vs |-> f.v, vc |-> ~f.v,
            ne |-> ~f.z, eq |-> f.z, mi |-> f.n, pl |-> ~f.n,
            lt |-> f.n # f.v, ge |-> f.n = f.v,
            hi |-> ~f.c /\ ~f.z, ls |-> f.c \/ f.z,
            gt |-> f.n = f.v /\ ~f.z, le |-> f.n # f.v \/ f.z]
=============================================================================
