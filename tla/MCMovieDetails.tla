--------------------------- MODULE MCMovieDetails ---------------------------
(***************************************************************************)
(* Instances of MovieDetails for model checking.                           *)
(***************************************************************************)
EXTENDS MovieDetails, TLC

\* A rating other than the 0 of a missing rating service.
OneValue == {5}

Symmetry == Permutations(Handlers) \cup Permutations(Movies)

=============================================================================
