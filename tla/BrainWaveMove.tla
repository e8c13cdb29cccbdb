--------------------------- MODULE BrainWaveMove ----------------------------
(***************************************************************************)
(* BrainWave with its move constructor and its move assignment.  Both call *)
(* pause() on the wave they move from, and the assignment first on the     *)
(* wave it moves to: those calls are calls of BrainWave, made while a move *)
(* is under way.  A wave assigned to itself ends paused and empty, because *)
(* the vector and the map of libstdc++ do.                                 *)
(***************************************************************************)
EXTENDS BrainWave

VARIABLE move  \* the move in progress

moveVars == <<vars, move>>

(***************************************************************************)
(* "copy" reads the flag of the source and stops it, "take" moves its      *)
(* members, "relaunch" is the call of execute() that ends the move.        *)
(***************************************************************************)
Move == [at     : {"idle", "copy", "take", "relaunch"},
         to     : Waves \cup {Nil},
         from   : Waves \cup {Nil},
         resume : BOOLEAN]

NoMove == [at |-> "idle", to |-> Nil, from |-> Nil, resume |-> FALSE]

MoveTypeOK == TypeOK /\ move \in Move

MoveInit == Init /\ move = NoMove

-----------------------------------------------------------------------------

\* Mutant of CopyFlag: the source is not stopped.
CopyFlagOnly(v, w) ==
    /\ running' = [running EXCEPT ![v] = running[w]]
    /\ call' = NoCall
    /\ move' = [at |-> "take", to |-> v, from |-> w, resume |-> running[w]]

\* The flag is copied, then the source is stopped if it was set.
CopyFlag(v, w) ==
    /\ running' = [running EXCEPT ![v] = running[w], ![w] = FALSE]
    /\ call' = IF running[w]
               THEN [name |-> "pause", at |-> "join", wave |-> w,
                     module |-> Nil, resume |-> TRUE]
               ELSE NoCall
    /\ move' = [at |-> "take", to |-> v, from |-> w, resume |-> running[w]]

MoveConstruct(v, w) ==
    /\ Idle /\ move = NoMove /\ ~alive[v] /\ alive[w]
    /\ CopyFlag(v, w)
    /\ UNCHANGED <<alive, thread, modules, indices, fate>>

\* Mutant of MoveAssign: the target is not stopped.
MoveAssignRunning(v, w) ==
    /\ Idle /\ move = NoMove /\ alive[v] /\ alive[w]
    /\ move' = [at |-> "copy", to |-> v, from |-> w, resume |-> FALSE]
    /\ UNCHANGED <<alive, running, thread, modules, indices, call, fate>>

(***************************************************************************)
(* It begins with Loggable::operator=, which ends without returning what   *)
(* it is declared to return: the call comes back in the default, debug     *)
(* build, and anything may happen in another.                              *)
(***************************************************************************)
MoveAssign(v, w) ==
    /\ Idle /\ move = NoMove /\ alive[v] /\ alive[w]
    /\ move' = [at |-> "copy", to |-> v, from |-> w, resume |-> FALSE]
    /\ \/ ~running[v] /\ UNCHANGED <<running, call, fate>>
       \/ running[v] /\ Stop(v, "pause", Nil, "idle") /\ UNCHANGED fate
       \/ fate' = "undefined" /\ UNCHANGED <<running, call>>
    /\ UNCHANGED <<alive, thread, modules, indices>>

Copy ==
    /\ Idle /\ move.at = "copy"
    /\ CopyFlag(move.to, move.from)
    /\ UNCHANGED <<alive, thread, modules, indices, fate>>

\* The source is left empty; what the target owned is destroyed.
Moved(f, v, w, empty) == [f EXCEPT ![v] = f[w], ![w] = empty]

Take ==
    LET v == move.to  w == move.from IN
    /\ Idle /\ move.at = "take"
    /\ alive' = [alive EXCEPT ![v] = TRUE]
    /\ modules' = Moved(modules, v, w, <<>>)
    /\ indices' = Moved(indices, v, w, NoIndices)
    /\ move' = IF move.resume THEN [move EXCEPT !.at = "relaunch"] ELSE NoMove
    /\ UNCHANGED <<running, thread, call, fate>>

\* execute() finds the flag that was copied, and returns.
Relaunch ==
    /\ Idle /\ move.at = "relaunch"
    /\ Launch(move.to)
    /\ move' = NoMove
    /\ UNCHANGED <<alive, modules, indices, call>>

\* The exception of a join() that finds no thread leaves the move as well.
ContinueCall ==
    /\ Continue
    /\ move' = IF call.at = "join" /\ ~Joinable(call.wave) THEN NoMove ELSE move

MoveNext ==
    \/ move = NoMove /\ Begin /\ UNCHANGED move
    \/ \E v, w \in Waves : MoveConstruct(v, w) \/ MoveAssign(v, w)
    \/ ContinueCall \/ Copy \/ Take \/ Relaunch
    \/ (\E w \in Waves : ThreadStep(w)) /\ UNCHANGED move

MoveSpec == MoveInit /\ [][MoveNext]_moveVars

-----------------------------------------------------------------------------
(***************************************************************************)
(* "The move constructor temporarily pauses the wave for transport":       *)
(* between two calls, moves included, the flag of a wave says whether it   *)
(* has a thread.  The code copies a set flag and then calls execute(),     *)
(* which makes a thread only if the flag is not set.                       *)
(***************************************************************************)
MovedWaveRunsOn == move = NoMove => RunningMeansThread

(***************************************************************************)
(* Moves and insertions alike take a list out of a wave, or put one into   *)
(* it, only while that wave has no thread that could be iterating over it. *)
(***************************************************************************)
ListsMoveWithoutThread ==
    [][\A w \in Waves : modules'[w] # modules[w] => ~Joinable(w)]_moveVars

=============================================================================
