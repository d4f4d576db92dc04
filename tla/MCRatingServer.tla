--------------------------- MODULE MCRatingServer ---------------------------
(***************************************************************************)
(* Instances of RatingServer for model checking.                           *)
(***************************************************************************)
EXTENDS RatingServer, TLC

OneValue == {1}
TwoValues == {1, 3}

Symmetry == Permutations(Handlers)

=============================================================================
