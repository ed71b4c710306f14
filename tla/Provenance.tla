----------------------------- MODULE Provenance -----------------------------
(***************************************************************************)
(* What an output slice promises, without saying how it is found: once the *)
(* trace is read, processes are taken in that produced an output or        *)
(* contents some process taken in has read; the slice is closed when       *)
(* nothing is missing any more.  So it is the least set that holds the     *)
(* producers of the outputs and everyone who supplied one of its members.  *)
(***************************************************************************)
VARIABLES
  reading,   \* <<process, contents>> that count as a dependency
  producing, \* <<contents, process>>
  seeds,     \* producers of the selected outputs
  included,
  slicing    \* "open", "growing" or "closed"

graphVars == <<reading, producing, seeds>>
provenanceVars == <<graphVars, included, slicing>>

\* Who produced what one of S has read.
Suppliers(S) ==
  {v[2] : v \in {w \in producing : \E r \in reading : r[1] \in S /\ r[2] = w[1]}}

ProvenanceInit == included = {} /\ slicing = "open"

\* The trace is read, or a new one is begun.
Observe == slicing' = "open" /\ included' = {}

Begin ==
  /\ slicing = "open"
  /\ slicing' = "growing"
  /\ included' = seeds'

Grow ==
  /\ slicing = "growing"
  /\ included \subseteq included'
  /\ included' \subseteq included \cup Suppliers(included)
  /\ UNCHANGED <<graphVars, slicing>>

Close ==
  /\ slicing = "growing"
  /\ Suppliers(included) \subseteq included
  /\ slicing' = "closed"
  /\ UNCHANGED <<graphVars, included>>

ProvenanceNext == Observe \/ Begin \/ Grow \/ Close

ProvenanceSpec == ProvenanceInit /\ [][ProvenanceNext]_provenanceVars
=============================================================================
