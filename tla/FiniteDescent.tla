---------------------------- MODULE FiniteDescent ----------------------------
(***************************************************************************)
(* The one fact about sequences of states that the proofs of liveness take *)
(* as a hypothesis: a finite set does not go on losing elements for ever.  *)
(*                                                                         *)
(* It holds for every state function S and every behavior, whatever the    *)
(* system, because the cardinality of S decreases with each loss.  It is a *)
(* hypothesis of theorems because its proof is an induction over temporal  *)
(* formulas, which the prover has no rule for.                             *)
(***************************************************************************)
EXTENDS FiniteSets

\* If S is always finite and from some time on gains no element, then from
\* some time on it stays as it is.
ComesToRest(S, v) ==
    []IsFiniteSet(S) /\ <>[][S' \subseteq S]_v => <>[][S' = S]_v

=============================================================================
