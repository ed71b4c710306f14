------------------------------ MODULE MCProbes ------------------------------
(* Instances of Probes for TLC.                                            *)
EXTENDS Probes, TLC

\* Task ids other than the root's are interchangeable.
Symmetry == Permutations(Pids \ {Root})

Class(abs, raw, under) == [abs |-> abs, raw |-> raw, under |-> under]
AbsInside == Class(TRUE, TRUE, TRUE)
AbsOutside == Class(TRUE, FALSE, FALSE)
RelInside == Class(FALSE, FALSE, TRUE)

OnePath == {AbsInside}
NormalPaths == {AbsInside, AbsOutside, RelInside}
=============================================================================
