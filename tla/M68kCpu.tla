------------------------------ MODULE M68kCpu ------------------------------
(***************************************************************************)
(* The instruction loop of the 68020 emulator in user mode: m68k_execute   *)
(* fetches an opcode and jumps to its handler until the program is over or *)
(* a handler raises an exception.                                          *)
(***************************************************************************)
EXTENDS M68kBits, M68kMove

Arithmetic ==
    \/ AddEr \/ AddRe \/ Addi \/ Addq \/ AddxRr \/ AddxMm \/ Adda
    \/ SubEr \/ SubRe \/ Subi \/ Subq \/ SubxRr \/ SubxMm \/ Suba
    \/ Neg \/ Negx \/ Ext \/ Cmp \/ Cmpa \/ Cmpi \/ Cmpm \/ Tst \/ Clr
    \/ Mul \/ Divu \/ Divs \/ Mull \/ Divl \/ Chk \/ Chk2Cmp2 \/ Cas \/ Cas2

Logic ==
    \/ AndEr \/ AndRe \/ Andi \/ OrEr \/ OrRe \/ Ori \/ Eor \/ Eori \/ LogicCcr
    \/ NotOp \/ Tas \/ Scc \/ Asr \/ Asl \/ Lsr \/ Lsl \/ Ror \/ Rol \/ Roxr \/ Roxl
    \/ Bchg \/ Bclr \/ Bset \/ Btst \/ Bfchg \/ Bfclr \/ Bfset \/ Bftst
    \/ Bfextu \/ Bfexts \/ Bfffo \/ Bfins

Movement ==
    \/ Move8 \/ Move16 \/ Move32 \/ Movea \/ Moveq \/ MoveFrCcr \/ MoveToCcr
    \/ MovemRe \/ MovemEr \/ MovepRe \/ MovepEr \/ Lea \/ Pea \/ Swap \/ Exg

Flow ==
    \/ Link \/ Unlk \/ Bcc \/ Bra \/ Bsr \/ Dbcc \/ Jmp \/ Jsr \/ Rts \/ Rtr \/ Rtd
    \/ Trapcc \/ Trapv \/ Nop

Next == Arithmetic \/ Logic \/ Movement \/ Flow \/ End

\* The host runs the loop for ever: execute(10000) is called again and again.
Spec == Init /\ [][Next]_vars /\ WF_vars(Next)
=============================================================================
