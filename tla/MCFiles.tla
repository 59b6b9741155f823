------------------------------ MODULE MCFiles ------------------------------
(* Instances of GemdosFiles for TLC: a name in two cases, and a long name with
   its 8.3 name.                                                           *)
EXTENDS GemdosFiles, TLC

N == INSTANCE Names83

longname == <<108, 111, 110, 103, 110, 97, 109, 101>>
LONG     == <<76, 79, 78, 71, 126>>
TEX      == <<46, 84, 69, 88>>

Spelling ==
  "foo"              :> <<102, 111, 111>>
  @@ "FOO"           :> <<70, 79, 79>>
  @@ "longname.text" :> longname \o <<46, 116, 101, 120, 116>>
  @@ "LONG~ZIY.TEX"  :> LONG \o <<90, 73, 89>> \o TEX

Names == DOMAIN Spelling

(* The 8.3 form of each name and a name for each class of strcasecmp: tables,
   as TLC would compute them anew in every state.                          *)
TheKeys83 ==
  "foo" :> "FOO" @@ "FOO" :> "FOO"
  @@ "longname.text" :> "LONG~ZIY.TEX" @@ "LONG~ZIY.TEX" :> "LONG~ZIY.TEX"

TheCaseKeys == [n \in Names |-> IF n = "foo" THEN "FOO" ELSE n]

ASSUME TablesAreRight == \A n \in Names :
  /\ Spelling[TheKeys83[n]] = N!filename8_3(Spelling[n], TRUE)
  /\ \A m \in Names : TheCaseKeys[n] = TheCaseKeys[m] <=> N!SameName(Spelling[n], Spelling[m])

ShortNames == {n \in Names : Len(Spelling[n]) <= 12}
HashNames  == {"LONG~ZIY.TEX"}

Path(abs, names) == [abs |-> abs, names |-> names]

SomePaths ==
  {Path(FALSE, <<n>>) : n \in Names \ {"FOO"}}
  \cup {Path(TRUE, <<"foo", "FOO">>), Path(TRUE, <<>>)}

SomeModes == {{}, {15}, {1, 9, 10}, {1, 9, 11}}
=============================================================================
