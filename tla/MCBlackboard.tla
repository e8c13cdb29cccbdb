---------------------------- MODULE MCBlackboard ----------------------------
(***************************************************************************)
(* A small instance of Blackboard for TLC.                                 *)
(***************************************************************************)
EXTENDS BlackboardClaims, TLC

Symmetry == Permutations(Types) \cup Permutations(Modules)

=============================================================================
