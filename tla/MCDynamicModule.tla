-------------------------- MODULE MCDynamicModule ---------------------------
(***************************************************************************)
(* A small instance of DynamicModule for TLC.  The module of one library   *)
(* has the name of the frontend's own client.                              *)
(***************************************************************************)
EXTENDS DynamicModule, TLC

CONSTANTS d1, d2, d3, i1, i2, w1, w2, reader, dynReader, dynLog, a, b, c,
          BrainWave

MCWrappers  == {d1, d2, d3}
MCInstances == {i1, i2}
MCObjects   == MCWrappers \cup MCInstances \cup {w1, w2}
MCNames     == {reader, dynReader, "Log", dynLog}
MCOwnNames  == {"Log"}
MCNameOf    == (a :> reader) @@ (b :> "Log") @@ (c :> reader)
MCPrefixed  == (reader :> dynReader) @@ ("Log" :> dynLog)
               @@ (dynReader :> dynReader) @@ (dynLog :> dynLog)
MCOtherKey  == {BrainWave} \X {reader, "Log"}

Symmetry == Permutations(MCWrappers) \cup Permutations(MCInstances)
            \cup Permutations({w1, w2})
=============================================================================
