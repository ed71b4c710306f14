---------------------------- MODULE MCCollector -----------------------------
(***************************************************************************)
(* Constants of the Collector runs: paths are sequences of components.     *)
(***************************************************************************)
EXTENDS Collector, TLC

Symmetry == Permutations(Pids \ {Root}) \cup Permutations(Files)

NoCwd == <<>>
HomeOnly == {<<>>}
TwoDirs == {<<>>, <<"d">>}
Sub == <<"d">>
OneName == {<<"a">>}
TwoNames == {<<"a">>, <<"b">>}
\* a file, a directory and a file in it; the directory is also what is watched
DirNames == {<<"a">>, <<"d">>, <<"d", "x">>}
BadName == {<<"b">>}
ToolA == <<"a">>
Everywhere == {<<>>}
UnderD == {<<"d">>}
=============================================================================
