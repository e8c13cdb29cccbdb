-------------------------- MODULE MCBrainWaveMove ---------------------------
(***************************************************************************)
(* A small instance of BrainWaveMove for TLC.                              *)
(***************************************************************************)
EXTENDS BrainWaveMove, TLC

CONSTANTS m1, m2, reader

MCModules == {m1, m2}
MCNames   == {reader}
MCNameOf  == [m \in MCModules |-> reader]
=============================================================================
