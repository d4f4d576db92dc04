-------------------------- MODULE MCMemoryRegistry --------------------------
(***************************************************************************)
(* An instance of MemoryRegistry for model checking.                       *)
(***************************************************************************)
EXTENDS MemoryRegistry

CONSTANTS i1, i2, i3, rating, metadata

\* Two processes of one service and one of another.
TwoServices == [i \in Instances |-> IF i = i3 THEN metadata ELSE rating]

=============================================================================
