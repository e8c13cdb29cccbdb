---------------------------- MODULE MCBrainWave -----------------------------
(***************************************************************************)
(* A small instance of BrainWave for TLC: the second and third module have *)
(* the same name.                                                          *)
(***************************************************************************)
EXTENDS BrainWave, TLC

CONSTANTS m1, m2, m3, reader, writer

MCModules == {m1, m2, m3}
MCNames   == {reader, writer}
MCNameOf  == (m1 :> writer) @@ (m2 :> reader) @@ (m3 :> reader)
=============================================================================
