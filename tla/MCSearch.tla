------------------------------ MODULE MCSearch ------------------------------
(* Instances of GemdosSearch for TLC: one directory of a few entries. *)
EXTENDS GemdosSearch

File(name, attrib) == [name |-> name, attrib |-> attrib, stat |-> TRUE]

(* ".", a link that leads nowhere, a hidden file and a directory. *)
AllKinds == <<File(".", {"hidden", "dir"}), [name |-> "LINK", attrib |-> {}, stat |-> FALSE],
              File(".RC", {"hidden"}), File("SUB", {"dir"})>>

FewAttrs == {{"dir"}, {"ro", "hidden", "dir"}}

Symmetric == Permutations(Priv) \cup Permutations(Dta)
=============================================================================
