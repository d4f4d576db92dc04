---------------------------- MODULE MCHttpDetails ----------------------------
(***************************************************************************)
(* An instance of HttpDetails for model checking, with the ids "m%" and    *)
(* "m%25": m1, which the catalog has and an event rates, but no service    *)
(* can decode it; and m2, which the services read as m1, in a Put too.     *)
(***************************************************************************)
EXTENDS HttpDetails, TLC

CONSTANTS p1, e1, m1, m2

MCCatalog == {m1}
MCDecoded == m1 :> None @@ m2 :> m1
MCAbout == p1 :> m2 @@ e1 :> m1

=============================================================================
