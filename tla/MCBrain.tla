------------------------------ MODULE MCBrain -------------------------------
(***************************************************************************)
(* A small instance of Brain for TLC.  All modules have one name, which    *)
(* only indices_ tells apart.                                              *)
(***************************************************************************)
EXTENDS BrainClaims, TLC

CONSTANT name

MCNames  == {name}
MCNameOf == [m \in Modules |-> name]

Symmetry == Permutations(Types) \cup Permutations(Modules)
            \cup Permutations(Waves)
=============================================================================
