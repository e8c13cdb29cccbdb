---------------------------- MODULE BrainClaims -----------------------------
(***************************************************************************)
(* What a comment of the code says of modules added while waves run, and   *)
(* the code does not keep.                                                 *)
(***************************************************************************)
EXTENDS Brain

(***************************************************************************)
(* "If the BrainWave is running, it will be stopped for insertion, and     *)
(* then restarted.  As long as dependencies are correct this should not be *)
(* a problem, as no Blackboard is touched."  The constructor of the module *)
(* has touched a board by then, while the wave was running.                *)
(***************************************************************************)
NoBoardTouchedAtRunTime == ordered => fate # "undefined"

=============================================================================
