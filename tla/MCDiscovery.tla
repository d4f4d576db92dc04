---------------------------- MODULE MCDiscovery ----------------------------
(***************************************************************************)
(* Instances of Discovery for model checking.                              *)
(***************************************************************************)
EXTENDS Discovery, TLC

CONSTANT rating

OneService == [i \in Instances |-> rating]

Symmetry == Permutations(Instances)

=============================================================================
