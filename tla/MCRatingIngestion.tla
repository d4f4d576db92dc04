------------------------- MODULE MCRatingIngestion -------------------------
(***************************************************************************)
(* Instances of RatingIngestion for model checking.                        *)
(***************************************************************************)
EXTENDS RatingIngestion, TLC

CONSTANTS u, m1, m2, movie

Event(id, type) == [recordId   |-> id,
                    recordType |-> movie,
                    userId     |-> u,
                    value      |-> 1,
                    eventType  |-> type]

\* Two ratings, one of them given twice; a rating and a withdrawn one; a
\* message that does not parse.
TwoPuts == <<Event(m1, "put"), Event(m2, "put"), Event(m1, "put")>>
PutAndDelete == <<Event(m1, "delete"), Event(m2, "put")>>
Poison == <<Event(m1, "put"), Malformed>>

ManyPayloads == {TwoPuts, PutAndDelete, Poison}
FewPayloads == {TwoPuts, Poison}
DeletePayload == {PutAndDelete}

MCValues == {1}

Symmetry == Permutations(Instances)

=============================================================================
