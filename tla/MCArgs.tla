------------------------------- MODULE MCArgs -------------------------------
(* Instances of GemdosArgs for TLC: a short command line, arguments that reach
   its end in several ways, two TOS programs and one of the host.          *)
EXTENDS GemdosArgs

SomeTexts   == {<<>>, <<"a">>, <<"b", "c">>}
ThePaths    == {<<"p">>, <<"q">>, <<"h">>}
ThePrograms == {<<"p">>, <<"q">>}
=============================================================================
