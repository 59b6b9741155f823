----------------------------- MODULE MCSignals -----------------------------
(* Instances of GemdosSignals for TLC: SIGPRIV, SIGKILL, SIGBUS, SIGCHLD and
   SIGUSR1 by their MiNT numbers; the last three have other host numbers.  *)
EXTENDS GemdosSignals

SomeMasks == {{}, {7, 10}, {9, 10, 20}, {20, 29}}
SomeSent  == {9, 10, 20, 29}
=============================================================================
