------------------------------- MODULE MemAbs -------------------------------
(***************************************************************************)
(* What the GEMDOS memory calls promise a program, without lists, nodes or *)
(* a rover: a set of reserved blocks that never overlap, and for every     *)
(* call the answer that the set alone determines.  The last call and its   *)
(* answer are the interface variable ret.                                  *)
(***************************************************************************)
EXTENDS Integers, FiniteSets

CONSTANTS MemBot, MemTop

VARIABLES held, ret

Bytes(b) == b.start .. b.start + b.size - 1

FreeBytes == (MemBot .. MemTop - 1) \ UNION {Bytes(b) : b \in held}

(* The places where n bytes in a row are free. *)
Runs(n) == {a \in MemBot .. MemTop - n : a .. a + n - 1 \subseteq FreeBytes}

(* Sizes are granted in units of four bytes. *)
Granted(n, g) == n <= g /\ g < n + 4 /\ g % 4 = 0

Reserve ==
  /\ ret'.call = "Malloc" /\ ret'.size # -1
  /\ \E g \in ret'.size .. ret'.size + 3 :
       /\ Granted(ret'.size, g)
       /\ \/ /\ ret'.res \in Runs(g)
             /\ held' = held \cup {[start |-> ret'.res, size |-> g]}
          \/ /\ Runs(g) = {} \/ g = 0
             /\ ret'.res = 0
             /\ held' = held

Largest ==
  /\ ret'.call = "Malloc" /\ ret'.size = -1
  /\ ret'.res \in 0 .. MemTop - MemBot
  /\ Runs(ret'.res) # {}
  /\ Runs(ret'.res + 1) = {}
  /\ held' = held

Release ==
  /\ ret'.call = "Mfree"
  /\ \/ \E b \in held : /\ b.start = ret'.addr
                        /\ held' = held \ {b}
                        /\ ret'.res = 0
     \/ /\ \A b \in held : b.start # ret'.addr
        /\ held' = held
        /\ ret'.res = -40

(* Keeps the front of a block; never moves it and never lets it grow. *)
Shrink ==
  /\ ret'.call = "Mshrink"
  /\ \/ \E b \in held :
          /\ b.start = ret'.addr
          /\ \E g \in ret'.size .. ret'.size + 3 :
               /\ Granted(ret'.size, g)
               /\ \/ /\ g <= b.size
                     /\ ret'.res = g
                     /\ held' = (held \ {b}) \cup
                          (IF g = 0 THEN {} ELSE {[start |-> b.start, size |-> g]})
                  \/ /\ g > b.size
                     /\ ret'.res = -67
                     /\ held' = held
     \/ /\ \A b \in held : b.start # ret'.addr
        /\ held' = held
        /\ ret'.res = -40

Init == held = {} /\ ret = [call |-> "none"]

Next == Reserve \/ Largest \/ Release \/ Shrink

Spec == Init /\ [][Next]_<<held, ret>>
=============================================================================
