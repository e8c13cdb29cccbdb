------------------------ MODULE BrainWaveMoveProofs -------------------------
(***************************************************************************)
(* Proofs about BrainWaveMove: with moves between its other calls, a       *)
(* BrainWave keeps what BrainWaveProofs proves of it without.              *)
(***************************************************************************)
EXTENDS BrainWaveMove, BrainWaveProofs

USE DEF Cleared, WaitOr, IndexIn, With, Begun, PassOver, Moved

-----------------------------------------------------------------------------
(***************************************************************************)
(* The inductive invariant, in parts.                                      *)
(***************************************************************************)

(***************************************************************************)
(* What each stage of a move may assume.  The wave that receives has no    *)
(* thread but one the move is waiting for, and the flag it was given stays *)
(* up until execute() finds it.                                            *)
(***************************************************************************)
MoveInv ==
    /\ move.at = "idle" => move = NoMove
    /\ move.at # "idle" /\ fate = "up" =>
           /\ move.to \in Waves /\ move.from \in Waves
           /\ alive[move.from]
           /\ call.name \in {"none", "pause"}
           /\ call.at \in {"idle", "join"}
           /\ Joinable(move.to) => Awaited(move.to)
           /\ move.at = "copy" => alive[move.to] /\ ~running[move.to]
           /\ move.at = "take" => /\ ~running[move.from]
                                  /\ move.resume => running[move.to]
           /\ move.at = "relaunch" => /\ alive[move.to] /\ running[move.to]
                                      /\ call = NoCall

MovingInv == MoveTypeOK /\ IInv /\ MoveInv

LEMMA NoMoveIsMove == NoMove \in Move /\ NoMove.at = "idle"
  BY DEF NoMove, Move

\* Between two calls no wave is waited for, and the flag of a thread is up.
LEMMA IdleWaves ==
    ASSUME IInv, Idle
    PROVE  /\ call = NoCall /\ fate = "up"
           /\ \A w \in Waves : ~Awaited(w) /\ (Joinable(w) => running[w])
  BY NoCallFields DEF Idle, Awaited, IInv, HandshakeInv

-----------------------------------------------------------------------------
(***************************************************************************)
(* What the calls of BrainWave do while a move is under way, or is not.    *)
(***************************************************************************)

\* The end of a pause(), and the threads, respect the stage of a move.
LEMMA CallsRespectMove ==
    ASSUME MovingInv, move.at # "idle",
           fate = "up",
           ContinueCall \/ (move' = move /\ \E w \in Waves : ThreadStep(w))
    PROVE  MoveInv'
<1> USE DEF MovingInv, MoveTypeOK
<1>0. PICK v \in Waves, w \in Waves : v = move.to /\ w = move.from
  BY DEF MoveInv
<1>1. CASE ContinueCall
  <2>1. Join /\ call # NoCall
    BY <1>1, NoCallFields
    DEF ContinueCall, Continue, Join, Insert, Restart, Free, MoveInv
  <2>2. PICK c \in Waves : c = call.wave
    BY <2>1 DEF IInv, CallInv
  <2>3. call.name = "pause"
    BY <2>1 DEF MoveInv, IInv, CallInv
  <2>4. CASE ~Joinable(c)
    BY <1>1, <2>1, <2>2, <2>4, NoMoveIsMove
    DEF ContinueCall, Join, MoveInv
  <2>5. CASE Joinable(c)
    <3>1. /\ move' = move /\ call' = NoCall /\ UNCHANGED <<alive, running>>
          /\ thread' = [thread EXCEPT ![c] = Resting("none")]
      BY <1>1, <2>1, <2>2, <2>3, <2>5 DEF ContinueCall, Join, AfterJoin
    <3>2. /\ ~Joinable(c)' /\ \A u \in Waves \ {c} : Joinable(u)' = Joinable(u)
      BY <3>1, RestingAt DEF Joinable, TypeOK
    <3>3. ~Joinable(v)'
      BY <1>0, <2>2, <3>2 DEF MoveInv, Awaited
    <3>4. move.at # "relaunch"
      BY <2>1 DEF MoveInv
    <3> QED
      BY <1>0, <3>1, <3>3, <3>4, NoCallFields DEF MoveInv
  <2> QED
    BY <2>4, <2>5
<1>2. CASE move' = move /\ \E u \in Waves : ThreadStep(u)
  <2>1. PICK u \in Waves : ThreadStep(u)
    BY <1>2
  <2>2. /\ UNCHANGED <<alive, running, call>> /\ move' = move
        /\ Joinable(u) /\ \A x \in Waves \ {u} : thread'[x] = thread[x]
    BY <1>2, <2>1
    DEF ThreadStep, CheckFlag, CallModule, EndOfPass, Joinable, TypeOK
  <2>3. Joinable(v)' => Joinable(v)
    BY <2>2 DEF Joinable
  <2> QED
    BY <1>0, <2>2, <2>3 DEF MoveInv, Awaited
<1> QED
  BY <1>1, <1>2

-----------------------------------------------------------------------------
(***************************************************************************)
(* The steps of a move.                                                    *)
(***************************************************************************)

LEMMA CopyFlagStep ==
    ASSUME MovingInv, Idle, NEW v \in Waves, NEW w \in Waves, alive[w],
           ~Joinable(v), v = w => ~running[w], CopyFlag(v, w),
           UNCHANGED <<alive, thread, modules, indices, fate>>
    PROVE  MovingInv'
<1> USE DEF MovingInv, MoveTypeOK
<1>1. /\ call = NoCall
      /\ \A u \in Waves : ~Awaited(u) /\ (Joinable(u) => running[u])
  BY IdleWaves
<1>2. /\ running' \in [Waves -> BOOLEAN] /\ ~running'[w]
      /\ v # w => running'[v] = running[w]
      /\ \A u \in Waves \ {v, w} : running'[u] = running[u]
  BY DEF CopyFlag, TypeOK
<1>3. /\ move' \in Move /\ move'.at = "take"
      /\ move'.to = v /\ move'.from = w /\ move'.resume = running[w]
  BY DEF CopyFlag, Move, TypeOK
<1>4. \/ ~running[w] /\ call' = NoCall
      \/ running[w] /\ call' = [name |-> "pause", at |-> "join", wave |-> w,
                                module |-> Nil, resume |-> TRUE]
  BY DEF CopyFlag
<1>5. /\ call' \in Call
      /\ running[w] => /\ call'.name = "pause" /\ call'.at = "join"
                       /\ call'.wave = w
      /\ ~running[w] => call' = NoCall
  <2>1. CASE ~running[w]
    BY <1>4, <2>1, NoCallIsCall
  <2>2. CASE running[w]
    <3>1. call' = [name |-> "pause", at |-> "join", wave |-> w,
                   module |-> Nil, resume |-> TRUE]
      BY <1>4, <2>2
    <3> QED
      BY <2>2, <3>1 DEF Call
  <2> QED
    BY <2>1, <2>2
<1>6. MoveTypeOK'
  BY <1>2, <1>3, <1>5 DEF TypeOK
<1>7. CallInv'
  BY <1>5, NoCallFields DEF CallInv
<1>8. HandshakeInv'
  BY <1>1, <1>2, <1>5, NoCallFields
  DEF IInv, HandshakeInv, Joinable, Awaited, TypeOK
<1>9. IInv'
  BY <1>7, <1>8 DEF IInv, PassInv, InPass, NoThreadAbandoned
<1>10. MoveInv'
  BY <1>2, <1>3, <1>5, NoCallFields DEF MoveInv, Joinable, Awaited
<1> QED
  BY <1>6, <1>9, <1>10

LEMMA MoveAssignStep ==
    ASSUME MovingInv, NEW v \in Waves, NEW w \in Waves, MoveAssign(v, w)
    PROVE  MovingInv'
<1> USE DEF MovingInv, MoveTypeOK
<1>1. /\ Idle /\ alive[v] /\ alive[w]
      /\ UNCHANGED <<alive, thread, modules, indices>>
      /\ move' = [at |-> "copy", to |-> v, from |-> w, resume |-> FALSE]
  BY DEF MoveAssign
<1>2. /\ move' \in Move /\ move'.at = "copy"
      /\ move'.to = v /\ move'.from = w
  BY <1>1 DEF Move
<1>3. /\ call = NoCall
      /\ \A u \in Waves : ~Awaited(u) /\ (Joinable(u) => running[u])
  BY <1>1, IdleWaves
<1>4. CASE ~running[v] /\ UNCHANGED <<running, call, fate>>
  <2>1. IInv' /\ TypeOK'
    BY <1>1, <1>4 DEF IInv, CallInv, HandshakeInv, PassInv, NoThreadAbandoned,
                      Joinable, Awaited, InPass, TypeOK
  <2> QED
    BY <1>1, <1>2, <1>3, <1>4, <2>1, NoCallFields
    DEF MoveInv, Joinable
<1>5. CASE running[v] /\ Stop(v, "pause", Nil, "idle") /\ UNCHANGED fate
  <2>1. /\ running' \in [Waves -> BOOLEAN] /\ call' \in Call /\ ~running'[v]
        /\ call'.name = "pause" /\ call'.at = "join" /\ call'.wave = v
    BY <1>5, StopTypes DEF Stop, TypeOK
  <2>2. TypeOK'
    BY <1>1, <1>5, <2>1 DEF TypeOK
  <2>3. IInv'
    BY <1>1, <1>5, StopKeepsInv
  <2> QED
    BY <1>1, <1>2, <2>1, <2>2, <2>3
    DEF MoveInv, Awaited
<1>6. CASE fate' = "undefined" /\ UNCHANGED <<running, call>>
  <2>1. IInv' /\ TypeOK'
    BY <1>1, <1>6 DEF IInv, CallInv, HandshakeInv, PassInv, NoThreadAbandoned,
                      Joinable, Awaited, InPass, TypeOK, Fates
  <2> QED
    BY <1>1, <1>2, <1>3, <1>6, <2>1, NoCallFields
    DEF MoveInv
<1> QED
  BY <1>1, <1>4, <1>5, <1>6 DEF MoveAssign

LEMMA TakeStep == ASSUME MovingInv, Take PROVE MovingInv'
<1> USE DEF MovingInv, MoveTypeOK
<1>0. PICK v \in Waves, w \in Waves : v = move.to /\ w = move.from
  BY DEF Take, Idle, MoveInv
<1>1. /\ call = NoCall /\ fate = "up"
      /\ \A u \in Waves : ~Awaited(u) /\ (Joinable(u) => running[u])
  BY IdleWaves DEF Take
<1>2. ~Joinable(v) /\ ~Joinable(w)
  BY <1>0, <1>1 DEF Take, MoveInv
<1>3. /\ UNCHANGED <<running, thread, call, fate>>
      /\ alive' = [alive EXCEPT ![v] = TRUE]
      /\ modules' = Moved(modules, v, w, <<>>)
      /\ indices' = Moved(indices, v, w, NoIndices)
  BY <1>0 DEF Take
<1>4. \/ move' = NoMove
      \/ /\ move' \in Move /\ move'.at = "relaunch" /\ move.resume
         /\ move'.to = v /\ move'.from = w
  BY <1>0 DEF Take, Move
<1>5. TypeOK'
  <2>1. alive' \in [Waves -> BOOLEAN] /\ modules' \in [Waves -> Seq(Modules)]
    BY <1>3 DEF TypeOK
  <2>2. indices' \in [Waves -> [Names -> 0..MaxIndex \cup {Nil}]]
    BY <1>3 DEF TypeOK, NoIndices
  <2> QED
    BY <1>3, <2>1, <2>2 DEF TypeOK
<1>6. MoveTypeOK'
  BY <1>4, <1>5, NoMoveIsMove
<1>7. /\ \A u \in Waves : (alive[u] => alive'[u]) /\ Joinable(u)' = Joinable(u)
      /\ \A u \in Waves \ {v, w} : modules'[u] = modules[u]
      /\ alive'[v] /\ alive'[w]
      /\ modules'[w] = <<>> /\ (v # w => modules'[v] = modules[w])
  BY <1>0, <1>1, <1>3 DEF Take, MoveInv, TypeOK, Joinable
<1>8. IInv'
  <2>1. HandshakeInv'
    BY <1>1, <1>3, <1>7, NoCallFields
    DEF IInv, HandshakeInv, Joinable, Awaited
  <2>2. PassInv'
    BY <1>2, <1>3, <1>7 DEF IInv, PassInv, InPass, Joinable
  <2> QED
    BY <1>1, <1>3, <2>1, <2>2, NoCallFields DEF IInv, CallInv, NoThreadAbandoned
<1>9. MoveInv'
  BY <1>0, <1>1, <1>2, <1>3, <1>4, <1>7, NoCallFields, NoMoveIsMove
  DEF Take, MoveInv
<1> QED
  BY <1>6, <1>8, <1>9

LEMMA RelaunchStep == ASSUME MovingInv, Relaunch PROVE MovingInv'
<1> USE DEF MovingInv, MoveTypeOK
<1>0. PICK v \in Waves : v = move.to /\ alive[v]
  BY DEF Relaunch, Idle, MoveInv
<1>1. /\ call = NoCall /\ call' = NoCall /\ \A u \in Waves : ~Awaited(u)
      /\ Launch(v) /\ UNCHANGED <<alive, modules, indices>> /\ move' = NoMove
  BY <1>0, IdleWaves DEF Relaunch, Idle
<1>2. MoveTypeOK'
  BY <1>1, LaunchTypes, NoCallIsCall, NoMoveIsMove DEF TypeOK
<1>3. IInv'
  BY <1>0, <1>1, LaunchKeepsInv
<1> QED
  BY <1>1, <1>2, <1>3, NoCallFields, NoMoveIsMove
  DEF MoveInv

LEMMA MovingStep ==
    ASSUME MovingInv, [MoveNext]_moveVars
    PROVE  MovingInv'
<1> USE DEF MovingInv, MoveTypeOK
<1>1. ASSUME [Next]_vars, move' \in {move, NoMove}
      PROVE  TypeOK' /\ IInv' /\ move' \in Move
  <2>1. TypeOK' /\ IInv'
    BY <1>1, NextTypes, NextInv DEF IInv
  <2> QED
    BY <1>1, <2>1, NoMoveIsMove
<1>2. ASSUME move = NoMove, move' = NoMove
      PROVE  MoveInv'
  BY <1>2, NoMoveIsMove DEF MoveInv
<1>3. CASE move = NoMove /\ Begin /\ UNCHANGED move
  BY <1>1, <1>2, <1>3 DEF Next
<1>4. ASSUME NEW v \in Waves, NEW w \in Waves, MoveConstruct(v, w)
      PROVE  MovingInv'
  <2>1. ~Joinable(v) /\ v # w
    BY <1>4 DEF MoveConstruct, IInv, HandshakeInv
  <2> QED
    BY <1>4, <2>1, CopyFlagStep DEF MoveConstruct
<1>5. ASSUME NEW v \in Waves, NEW w \in Waves, MoveAssign(v, w)
      PROVE  MovingInv'
  BY <1>5, MoveAssignStep
<1>6. CASE Copy
  <2>1. PICK v \in Waves, w \in Waves : v = move.to /\ w = move.from
    BY <1>6 DEF Copy, Idle, MoveInv
  <2>2. /\ alive[w] /\ ~running[v] /\ ~Joinable(v)
        /\ Idle /\ CopyFlag(v, w)
        /\ UNCHANGED <<alive, thread, modules, indices, fate>>
    BY <1>6, <2>1, IdleWaves DEF Copy, Idle, MoveInv
  <2> QED
    BY <2>2, CopyFlagStep
<1>7. CASE Take \/ Relaunch
  BY <1>7, TakeStep, RelaunchStep
<1>8. CASE ContinueCall \/ ((\E w \in Waves : ThreadStep(w)) /\ UNCHANGED move)
  <2>1. Next /\ fate = "up" /\ move' \in {move, NoMove}
    BY <1>8
    DEF ContinueCall, Continue, Join, Insert, Restart, Free, Next, ThreadStep,
        CheckFlag, CallModule, EndOfPass
  <2>2. MoveInv'
    <3>1. CASE move.at = "idle"
      BY <1>2, <2>1, <3>1 DEF MoveInv
    <3>2. CASE move.at # "idle"
      BY <1>8, <2>1, <3>2, CallsRespectMove
    <3> QED
      BY <3>1, <3>2
  <2> QED
    BY <1>1, <2>1, <2>2
<1>9. CASE UNCHANGED moveVars
  BY <1>9
  DEF moveVars, vars, TypeOK, IInv, CallInv, HandshakeInv, PassInv,
      NoThreadAbandoned, Joinable, Awaited, InPass, MoveInv
<1> QED
  BY <1>3, <1>4, <1>5, <1>6, <1>7, <1>8, <1>9 DEF MoveNext

LEMMA MovingInvHolds == MoveSpec => []MovingInv
<1>1. MoveInit => MovingInv
  BY InitTypes, InitInv, NoMoveIsMove
  DEF MoveInit, MovingInv, MoveTypeOK, MoveInv
<1> QED
  BY <1>1, MovingStep, PTL DEF MoveSpec

-----------------------------------------------------------------------------
(***************************************************************************)
(* The properties the run checks, for every instance.                      *)
(***************************************************************************)

(***************************************************************************)
(* A move leaves every wave, thread, list and index with its type.         *)
(***************************************************************************)
THEOREM MoveTypesAreCorrect == MoveSpec => []MoveTypeOK
<1>1. MovingInv => MoveTypeOK
  BY DEF MovingInv
<1> QED
  BY <1>1, MovingInvHolds, PTL

(***************************************************************************)
(* No move assigns to a joinable std::thread, or destroys one: launchWave  *)
(* is stopped on both sides before the members change hands.               *)
(***************************************************************************)
THEOREM MovesAbandonNoThread == MoveSpec => []NoThreadAbandoned
<1>1. MovingInv => NoThreadAbandoned
  BY DEF MovingInv, IInv
<1> QED
  BY <1>1, MovingInvHolds, PTL

\* What the steps of a move do to the lists and the threads.
LEMMA StepsOfMoves ==
    ASSUME MovingInv, [MoveNext]_moveVars
    PROVE  \/ [Next]_vars
           \/ UNCHANGED <<modules, thread>>
           \/ Take
           \/ Relaunch
  BY DEF MoveNext, MoveConstruct, MoveAssign, ContinueCall, Copy, Next,
         moveVars

\* Neither wave of a Take has a thread.
LEMMA TakeWithoutThread ==
    ASSUME MovingInv, Take
    PROVE  /\ move.to \in Waves /\ move.from \in Waves
           /\ ~Joinable(move.to) /\ ~Joinable(move.from)
  BY IdleWaves DEF MovingInv, Take, Idle, MoveInv

(***************************************************************************)
(* A list is moved out of, or into, a wave only while it has no thread.    *)
(***************************************************************************)
THEOREM ListsAreMovedWithoutThread == MoveSpec => ListsMoveWithoutThread
<1>1. MovingInv /\ [MoveNext]_moveVars =>
        [\A w \in Waves : modules'[w] # modules[w] => ~Joinable(w)]_moveVars
  <2> SUFFICES ASSUME MovingInv, [MoveNext]_moveVars, NEW w \in Waves,
                      modules'[w] # modules[w]
               PROVE  ~Joinable(w)
    OBVIOUS
  <2>1. CASE [Next]_vars
    <3>1. Insert \/ Free
      BY <2>1, OnlyTwoStepsChangeLists
    <3>2. call.wave = w /\ call.at \in {"insert", "free"}
      BY <3>1 DEF Insert, Free, MovingInv, MoveTypeOK, TypeOK
    <3> QED
      BY <3>2 DEF MovingInv, IInv, HandshakeInv
  <2>2. CASE Take
    <3>1. w \in {move.to, move.from}
      BY <2>2 DEF Take, MovingInv, MoveTypeOK, TypeOK
    <3> QED
      BY <2>2, <3>1, TakeWithoutThread
  <2>3. CASE Relaunch
    BY <2>3 DEF Relaunch
  <2> QED
    BY <2>1, <2>2, <2>3, StepsOfMoves
<1> QED
  BY <1>1, MovingInvHolds, PTL DEF MoveSpec, ListsMoveWithoutThread

(***************************************************************************)
(* A move that waits for either of its waves waits for one pass at most:   *)
(* between its stages nothing raises the flag of the thread it awaits.     *)
(***************************************************************************)
THEOREM MovesWaitBriefly == MoveSpec => WaitsGetShorter
<1>1. MovingInv /\ [MoveNext]_moveVars =>
        [\A w \in Waves :
            Awaited(w) /\ Awaited(w)' /\ thread'[w] # thread[w]
                => StepsLeft(w)' \in 0 .. StepsLeft(w) - 1]_vars
  <2> SUFFICES ASSUME MovingInv, [MoveNext]_moveVars, NEW w \in Waves,
                      Awaited(w), Awaited(w)', thread'[w] # thread[w]
               PROVE  StepsLeft(w)' \in 0 .. StepsLeft(w) - 1
    OBVIOUS
  <2>1. TypeOK /\ IInv
    BY DEF MovingInv, MoveTypeOK
  <2>2. ~Take /\ ~Relaunch
    BY <2>1, IdleWaves DEF Take, Relaunch
  <2>3. [Next]_vars
    BY <2>2, StepsOfMoves
  <2> QED
    BY <2>1, <2>3, OnlyItsThreadMoves, ThreadNearsItsEnd
<1> QED
  BY <1>1, MovingInvHolds, PTL DEF MoveSpec, WaitsGetShorter

(***************************************************************************)
(* Every wave loops over its modules as PassLoop says while waves are      *)
(* moved, too: a list changes hands between two passes, in order and       *)
(* whole.                                                                  *)
(***************************************************************************)
THEOREM MovesImplementPassLoop == MoveSpec => LoopsInPasses
<1>1. MoveInit => PassesOf!Init
  BY InitOfPasses DEF MoveInit
<1>2. MovingInv /\ [MoveNext]_moveVars => [PassesOf!Next]_(PassesOf!loopVars)
  <2> SUFFICES ASSUME MovingInv, [MoveNext]_moveVars
               PROVE  [PassesOf!Next]_(PassesOf!loopVars)
    OBVIOUS
  <2>1. CASE [Next]_vars
    BY <2>1, StepsOfPasses DEF MovingInv, MoveTypeOK
  <2>2. CASE UNCHANGED <<modules, thread>>
    BY <2>2, StutterOfPasses DEF InPass
  <2>3. CASE Take
    <3>1. PICK v \in Waves, w \in Waves : v = move.to /\ w = move.from
      BY <2>3, TakeWithoutThread
    <3>2. /\ ~InPass(v) /\ ~InPass(w) /\ thread' = thread
          /\ modules \in [Waves -> Seq(Modules)]
          /\ modules' = [modules EXCEPT ![v] = modules[w], ![w] = <<>>]
      BY <2>3, <3>1, TakeWithoutThread
      DEF Take, InPass, Joinable, MovingInv, MoveTypeOK, TypeOK
    <3>3. CASE v = w
      <4>1. modules' = [modules EXCEPT ![v] = <<>>]
        BY <3>2, <3>3
      <4>2. PassesOf!Clear(v)
        BY <3>2, <4>1 DEF PassesOf!Clear, InPass
      <4> QED
        BY <4>2 DEF PassesOf!Next
    <3>4. CASE v # w
      <4>1. PassesOf!Transfer(w, v)
        BY <3>2, <3>4 DEF PassesOf!Transfer, InPass
      <4> QED
        BY <4>1 DEF PassesOf!Next
    <3> QED
      BY <3>3, <3>4
  <2>4. CASE Relaunch
    <3>1. move.to \in Waves /\ Launch(move.to) /\ modules' = modules
      BY <2>4 DEF Relaunch, Idle, MovingInv, MoveInv
    <3> QED
      BY <3>1, LaunchOfPasses DEF MovingInv, MoveTypeOK
  <2> QED
    BY <2>1, <2>2, <2>3, <2>4, StepsOfMoves
<1> QED
  BY <1>1, <1>2, MovingInvHolds, PTL
  DEF MoveSpec, LoopsInPasses, PassesOf!Spec

=============================================================================
