------------------------------- MODULE MCExc -------------------------------
(* An instance of M68kExc for TLC. *)
EXTENDS M68kExc
=============================================================================
