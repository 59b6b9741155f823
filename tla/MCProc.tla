------------------------------- MODULE MCProc -------------------------------
(* Instances of GemdosProc for TLC: a few host pids and a narrow int16_t. *)
EXTENDS GemdosProc
=============================================================================
