----------------------------- MODULE MCRollout -----------------------------
(***************************************************************************)
(* Two engines, a plan of two canary weights and two operators.            *)
(***************************************************************************)
EXTENDS Rollout, TLC

MCWeight == [k \in 0..N |-> CASE k = 0 -> 0 [] k = N -> 100 [] OTHER -> 10 * k]
OperatorSymmetry == Permutations(Operator)
=============================================================================
