--------------------------- MODULE MCAttestation ----------------------------
(***************************************************************************)
(* What is attested in the Attestation run: up to five operations, so that *)
(* trees with and without padding occur, and texts that run into each      *)
(* other when they are written without their lengths.                      *)
(***************************************************************************)
EXTENDS Attestation

op(i) == <<"op", i>>
Leaves == {<<>>, <<op(1)>>, <<op(2)>>, <<op(1), op(2)>>, <<op(1), op(2), op(3)>>,
           <<op(1), op(2), op(3), op(4), op(5)>>}

a == <<1>>
aa == <<1, 1>>
Output(p, h) == [path |-> p, hash |-> h]

Make(leaves, command, artifacts, roots, outputs) ==
  [leaves |-> leaves, command |-> command, artifacts |-> artifacts,
   output_roots |-> roots, outputs |-> outputs]

MCOrigins ==
  {Make(l, <<a>>, <<>>, <<>>, {}) : l \in Leaves}
  \cup {Make(<<op(1)>>, c, <<>>, <<>>, {}) : c \in {<<a, aa>>, <<aa, a>>, <<aa>>, <<a, a>>}}
  \cup {Make(<<op(1)>>, <<a>>, x, <<>>, {Output(a, a)}) : x \in {<<a, aa>>, <<aa, a>>, <<a>>}}
  \cup {Make(<<op(1)>>, <<a>>, <<>>, <<a>>, os) :
          os \in {{Output(a, a)}, {Output(a, aa)}, {Output(aa, a)},
                  {Output(a, a), Output(aa, aa)}}}
=============================================================================
