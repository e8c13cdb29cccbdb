---------------------------- MODULE BrainProofs -----------------------------
(***************************************************************************)
(* Proofs about Brain, for any number of waves, modules, keys and types.   *)
(* What the actions of BrainWave keep is cited from BrainWaveProofs.       *)
(***************************************************************************)
EXTENDS Brain, BrainWaveProofs

USE DEF Cleared, WaitOr, IndexIn, With, Begun, PassOver

-----------------------------------------------------------------------------
(***************************************************************************)
(* The inductive invariant, in parts.                                      *)
(***************************************************************************)

\* The constructor of a module is called for a wave, between two of its calls.
JobInv ==
    job.at = "construct" => /\ call = NoCall
                            /\ job.wave \in Waves /\ job.module \in Modules

\* A wave that is gone has left its flag down, for the next of its name.
DeadInv == \A w \in Waves : running[w] => alive[w]

(***************************************************************************)
(* The destruction of the Brain.  No call is left that could launch a      *)
(* wave again, and the threads of the waves that the first loop has passed *)
(* are gone, but for the one it waits for.                                 *)
(***************************************************************************)
Ending == job.at \in {"pause", "free", "done"}

EndInv ==
    /\ Ending => call.at \in {"idle", "join", "free"} /\ call.name # "add"
    /\ job.at = "pause" =>
           \A w \in Waves \ job.todo : Joinable(w) => Awaited(w)
    /\ job.at \in {"free", "done"} =>
           /\ \A w \in Waves : ~Joinable(w)
           /\ board = [w \in Waves |-> NewBoard]
    /\ call.name = "destroy" \/ call.at = "free" => job.at = "free"

BrainInv == BrainTypeOK /\ IInv /\ JobInv /\ DeadInv /\ EndInv

-----------------------------------------------------------------------------
(***************************************************************************)
(* Types.                                                                  *)
(***************************************************************************)

LEMMA EntryTypes ==
    /\ NoEntry \in Entry
    /\ \A e \in Entry, t \in Types, op \in Ops :
           Registered(op, e, t) \in Entry /\ Written(e, t) \in Entry
<1>1. NoEntry \in Entry
  BY DEF NoEntry, Entry
<1>2. ASSUME NEW e \in Entry, NEW t \in Types
      PROVE  /\ Required(e, t) \in Entry /\ Provided(e, t) \in Entry
             /\ GlobalProvided(e, t) \in Entry /\ Written(e, t) \in Entry
  BY DEF Entry, TypeState, Required, Provided, GlobalProvided, Written, Emplaced
<1> QED
  BY <1>1, <1>2 DEF Registered, Ops, RequireOps, ProvideOps

LEMMA EntryIsPut ==
    ASSUME NEW f \in [Waves -> [Keys -> Entry]],
           NEW v \in Waves, NEW k \in Keys, NEW e \in Entry
    PROVE  [f EXCEPT ![v][k] = e] \in [Waves -> [Keys -> Entry]]
  OBVIOUS

LEMMA JobTypes ==
    /\ \A at \in {"idle", "launch", "pause", "free", "done"},
          todo \in SUBSET Waves :
           /\ Stage(at, todo) \in Job /\ Stage(at, todo).at = at
           /\ Stage(at, todo).todo = todo
    /\ NoJob \in Job /\ NoJob.at = "idle"
  BY DEF Stage, Job, NoJob

\* The accessor that a wave is about to call.
LEMMA AccessTypes ==
    ASSUME BrainTypeOK, IInv, NEW w \in Waves, InAccess(w)
    PROVE  /\ Current(w) \in Modules /\ NextAccess(w) \in Access
           /\ step[w] + 1 \in 0..MaxAccesses /\ Joinable(w)
<1>1. modules[w] \in Seq(Modules) /\ thread[w] \in Thread
  BY DEF BrainTypeOK, TypeOK
<1>2. Len(modules[w]) \in Nat
  BY <1>1, LenIsNat
<1>3. /\ thread[w].next \in 1..Len(modules[w])
      /\ Joinable(w)
  BY <1>1, <1>2 DEF InAccess, Calling, IInv, PassInv, InPass, Joinable, Thread
<1>4. Current(w) \in Modules
  BY <1>1, <1>3 DEF Current
<1>5. access[Current(w)] \in Seq(Access) /\ Len(access[Current(w)]) <= MaxAccesses
  BY <1>4 DEF BrainTypeOK
<1>6. step[w] \in Nat /\ step[w] < Len(access[Current(w)])
  BY BoundAssumption DEF BrainTypeOK, InAccess
<1>7. Len(access[Current(w)]) \in Nat
  BY <1>5, LenIsNat
<1>8. NextAccess(w) \in Access
  BY <1>5, <1>6, <1>7 DEF NextAccess
<1> QED
  BY <1>3, <1>4, <1>5, <1>6, <1>7, <1>8, BoundAssumption

-----------------------------------------------------------------------------
(***************************************************************************)
(* What a step of Brain is to its waves: a step of BrainWave, a wave that  *)
(* is created in a registration, or a module that throws.                  *)
(***************************************************************************)

CreatesWave ==
    /\ fate = "up" /\ fate' \in {"up", "uncaught", "undefined"}
    /\ job.at = "construct"
    /\ \E v \in Waves : alive' = [alive EXCEPT ![v] = TRUE]
    /\ UNCHANGED <<running, thread, modules, indices, call>>

Throws ==
    /\ fate = "up" /\ fate' \in {"misread", "threw"}
    /\ \E w \in Waves : InAccess(w)
    /\ UNCHANGED <<alive, running, thread, modules, indices, call>>

LEMMA StepOfWaves ==
    ASSUME JobInv, [BrainNext]_brainVars
    PROVE  [Next]_vars \/ CreatesWave \/ Throws
<1>1. CASE BeginCommand
  BY <1>1 DEF BeginCommand, CreateWave, AddDynamicModule, Test, Quit, Next, Begin
<1>2. CASE Registering
  <2>1. PICK op \in Ops, v \in Waves, k \in Keys, t \in Types :
            Register(op, v, k, t)
    BY <1>2 DEF Registering
  <2>2. CreatesWave
    BY <2>1 DEF Register, CreatesWave
  <2> QED
    BY <2>2
<1>3. CASE Finish
  <2>1. CASE Continue
    BY <2>1 DEF Next
  <2>2. CASE Constructed
    <3>1. /\ AddModule(job.wave, job.module)
          /\ job.wave \in Waves /\ job.module \in Modules
      BY <2>2 DEF Constructed, JobInv
    <3> QED
      BY <3>1 DEF Next, Begin
  <2> QED
    BY <1>3, <2>1, <2>2
    DEF Finish, ClearBoards, Exit, LaunchWave, PauseWave, ClearWave, Next, Begin
<1>4. ASSUME NEW w \in Waves, WaveStep(w)
      PROVE  [Next]_vars \/ CreatesWave \/ Throws
  <2>1. CASE CallAccess(w)
    BY <2>1 DEF CallAccess, Throws, vars
  <2>2. CASE Return(w) \/ CheckFlag(w) \/ EndOfPass(w)
    BY <2>2 DEF Return, Next, ThreadStep
  <2> QED
    BY <1>4, <2>1, <2>2 DEF WaveStep
<1>5. CASE UNCHANGED brainVars
  BY <1>5 DEF brainVars
<1> QED
  BY <1>1, <1>2, <1>3, <1>4, <1>5 DEF BrainNext

LEMMA WavesAreKept ==
    ASSUME BrainInv, [BrainNext]_brainVars
    PROVE  TypeOK' /\ IInv' /\ DeadInv'
<1> USE DEF BrainInv, BrainTypeOK
<1>1. CASE [Next]_vars
  <2>1. TypeOK' /\ IInv'
    BY <1>1, NextTypes, NextInv DEF IInv
  <2>2. DeadInv'
    <3>1. CASE Begin
      BY <3>1 DEF Begin, Construct, Execute, Launch, Pause, Destroy, AddModule,
                  Stop, DeadInv, TypeOK
    <3>2. CASE Join \/ Insert
      BY <3>2 DEF Join, Insert, DeadInv
    <3>3. CASE Restart
      <4>1. call.wave \in Waves /\ alive[call.wave]
        BY <3>3, NoCallFields DEF Restart, IInv, CallInv
      <4> QED
        BY <3>3, <4>1 DEF Restart, Launch, DeadInv, TypeOK
    <3>4. CASE Free
      <4>1. call.wave \in Waves /\ ~running[call.wave]
        BY <3>4, NoCallFields DEF Free, IInv, CallInv, HandshakeInv
      <4> QED
        BY <3>4, <4>1 DEF Free, DeadInv, TypeOK
    <3>5. CASE \E w \in Waves : ThreadStep(w)
      BY <3>5 DEF ThreadStep, CheckFlag, CallModule, EndOfPass, DeadInv
    <3>6. CASE UNCHANGED vars
      BY <3>6 DEF vars, DeadInv
    <3> QED
      BY <1>1, <3>1, <3>2, <3>3, <3>4, <3>5, <3>6 DEF Next, Continue
  <2> QED
    BY <2>1, <2>2
<1>2. CASE CreatesWave
  <2>1. /\ alive' \in [Waves -> BOOLEAN]
        /\ \A w \in Waves : alive[w] => alive'[w]
    BY <1>2 DEF CreatesWave, TypeOK
  <2> QED
    BY <1>2, <2>1 DEF CreatesWave, TypeOK, Fates, IInv, CallInv, HandshakeInv,
                      PassInv, NoThreadAbandoned, Joinable, Awaited, InPass,
                      DeadInv
<1>3. CASE Throws
  BY <1>3 DEF Throws, TypeOK, Fates, IInv, CallInv, HandshakeInv, PassInv,
              NoThreadAbandoned, Joinable, Awaited, InPass, DeadInv
<1> QED
  BY <1>1, <1>2, <1>3, StepOfWaves

LEMMA JobAndBoardTypes ==
    ASSUME BrainInv, [BrainNext]_brainVars
    PROVE  BrainTypeOK'
<1> USE DEF BrainInv, BrainTypeOK
<1>1. TypeOK'
  BY WavesAreKept
<1>2. CASE UNCHANGED <<board, access, step, ordered>> /\ job' \in Job
  BY <1>1, <1>2
<1>3. CASE BeginCommand
  <2>1. CASE \E w \in Waves, m \in Modules : AddDynamicModule(w, m)
    BY <1>2, <2>1 DEF AddDynamicModule, Job
  <2>2. Alive \in SUBSET Waves
    BY DEF Alive
  <2> QED
    BY <1>2, <1>3, <2>1, <2>2, JobTypes
    DEF BeginCommand, CreateWave, Test, Quit, Then
<1>4. CASE Registering
  <2>1. PICK op \in Ops, v \in Waves, k \in Keys, t \in Types :
            Register(op, v, k, t)
    BY <1>4 DEF Registering
  <2>2. job.module \in Modules /\ job' = job /\ step' = step
    BY <2>1 DEF Register, JobInv
  <2>3. /\ access[job.module] \in Seq(Access)
        /\ Len(access[job.module]) \in Nat
        /\ Len(access[job.module]) < MaxAccesses
    BY <2>1, <2>2, LenIsNat DEF Register
  <2>4. ASSUME NEW granted \in BOOLEAN, Given(op, v, k, t, granted)
        PROVE  /\ access' \in [Modules -> Seq(Access)]
               /\ \A m \in Modules : Len(access'[m]) <= MaxAccesses
    <3> DEFINE a == [op |-> op, board |-> v, key |-> k, type |-> t,
                     granted |-> granted]
    <3>1. a \in Access
      BY DEF Access
    <3> HIDE DEF a
    <3>2. /\ Append(access[job.module], a) \in Seq(Access)
          /\ Len(Append(access[job.module], a)) = Len(access[job.module]) + 1
      BY <2>3, <3>1, AppendIsSeq
    <3>3. access' = [access EXCEPT ![job.module] = Append(access[job.module], a)]
      BY <2>4 DEF Given, a
    <3>4. /\ access'[job.module] = Append(access[job.module], a)
          /\ \A m \in Modules \ {job.module} : access'[m] = access[m]
      BY <2>2, <3>3
    <3>5. Len(access'[job.module]) <= MaxAccesses
      BY <2>3, <3>2, <3>4, BoundAssumption
    <3> QED
      BY <2>2, <3>2, <3>3, <3>4, <3>5
  <2>5. /\ access' \in [Modules -> Seq(Access)]
        /\ \A m \in Modules : Len(access'[m]) <= MaxAccesses
    BY <2>1, <2>4 DEF Register
  <2>6. board' \in [Waves -> [Keys -> Entry]]
    <3>1. board[v][k] \in Entry
      OBVIOUS
    <3>2. Registered(op, board[v][k], t) \in Entry
      BY <3>1, EntryTypes
    <3>3. PICK e : e = Registered(op, board[v][k], t)
      OBVIOUS
    <3>4. board' = board \/ board' = [board EXCEPT ![v][k] = e]
      BY <2>1, <3>3 DEF Register
    <3>5. board \in [Waves -> [Keys -> Entry]] /\ e \in Entry
      BY <3>2, <3>3
    <3>6. [board EXCEPT ![v][k] = e] \in [Waves -> [Keys -> Entry]]
      BY ONLY <3>5, v \in Waves, k \in Keys, EntryIsPut
    <3> QED
      BY ONLY <3>4, <3>5, <3>6
  <2>7. ordered' \in BOOLEAN
    BY <2>1 DEF Register
  <2> QED
    BY <1>1, <2>2, <2>5, <2>6, <2>7
<1>5. CASE Finish
  <2>1. job.todo \in SUBSET Waves
    BY DEF Job
  <2>2. CASE ClearBoards
    <3>1. NewBoard \in [Keys -> Entry]
      BY EntryTypes DEF NewBoard
    <3> QED
      BY <1>1, <2>2, <3>1, JobTypes DEF ClearBoards
  <2>3. ASSUME NEW w \in Waves, LaunchWave(w) \/ PauseWave(w)
        PROVE  job' \in Job
    BY <2>1, <2>3, JobTypes DEF LaunchWave, PauseWave, Then
  <2>4. CASE \E w \in Waves : LaunchWave(w) \/ PauseWave(w)
    BY <1>2, <2>3, <2>4 DEF LaunchWave, PauseWave
  <2>5. CASE \/ Continue /\ UNCHANGED <<board, access, step, job, ordered>>
             \/ Constructed \/ Exit \/ \E w \in Waves : ClearWave(w)
    BY <1>2, <2>5, JobTypes DEF Constructed, Exit, ClearWave
  <2> QED
    BY <1>5, <2>2, <2>4, <2>5 DEF Finish
<1>6. ASSUME NEW w \in Waves, WaveStep(w)
      PROVE  BrainTypeOK'
  <2>1. CASE CallAccess(w)
    <3>1. /\ NextAccess(w) \in Access /\ step[w] + 1 \in 0..MaxAccesses
      BY <2>1, AccessTypes DEF CallAccess
    <3>2. PICK v, k : v = NextAccess(w).board /\ k = NextAccess(w).key
      OBVIOUS
    <3>3. v \in Waves /\ k \in Keys /\ NextAccess(w).type \in Types
      BY <3>1, <3>2 DEF Access
    <3>4. PICK e : e = Written(board[v][k], NextAccess(w).type)
      OBVIOUS
    <3>5. board' \in [Waves -> [Keys -> Entry]]
      <4>1. board[v][k] \in Entry
        BY <3>3
      <4>2. e \in Entry
        BY <3>3, <3>4, <4>1, EntryTypes DEF Ops, RequireOps
      <4>3. board' = board \/ board' = [board EXCEPT ![v][k] = e]
        BY <2>1, <3>2, <3>4 DEF CallAccess
      <4>4. board \in [Waves -> [Keys -> Entry]]
        OBVIOUS
      <4>5. [board EXCEPT ![v][k] = e] \in [Waves -> [Keys -> Entry]]
        BY ONLY <3>3, <4>2, <4>4, EntryIsPut
      <4> QED
        BY ONLY <4>3, <4>4, <4>5
    <3>6. step' \in [Waves -> 0..MaxAccesses]
      BY <2>1, <3>1 DEF CallAccess
    <3> QED
      BY <1>1, <2>1, <3>5, <3>6 DEF CallAccess
  <2>2. CASE Return(w)
    BY <1>1, <2>2, BoundAssumption DEF Return
  <2> QED
    BY <1>2, <1>6, <2>1, <2>2 DEF WaveStep
<1>7. CASE UNCHANGED brainVars
  BY <1>2, <1>7 DEF brainVars
<1> QED
  BY <1>3, <1>4, <1>5, <1>6, <1>7 DEF BrainNext

-----------------------------------------------------------------------------
(***************************************************************************)
(* The end.                                                                *)
(***************************************************************************)

\* Only execute() and the end of addModule() make a thread.
LEMMA ThreadsAreMade ==
    ASSUME TypeOK, [Next]_vars, NEW w \in Waves, ~Joinable(w), Joinable(w)'
    PROVE  Restart \/ \E v \in Waves : Execute(v)
<1>1. CASE Begin
  BY <1>1 DEF Begin, Construct, Pause, Destroy, AddModule, Joinable
<1>2. CASE Join
  BY <1>2, RestingAt DEF Join, Joinable, TypeOK
<1>3. CASE Insert \/ Free \/ UNCHANGED vars
  BY <1>3 DEF Insert, Free, vars, Joinable
<1>4. ASSUME NEW v \in Waves, ThreadStep(v)
      PROVE  FALSE
  <2>1. thread[v].at # "none" /\ \A u \in Waves \ {v} : thread'[u] = thread[u]
    BY <1>4 DEF ThreadStep, CheckFlag, CallModule, EndOfPass, TypeOK
  <2> QED
    BY <2>1 DEF Joinable
<1> QED
  BY <1>1, <1>2, <1>3, <1>4 DEF Next, Continue

\* A command that begins finds nothing under way.
LEMMA ReadyMeansIdle ==
    Ready => /\ fate = "up" /\ call = NoCall /\ job.at = "idle"
             /\ call.at = "idle" /\ call.name = "none"
             /\ \A w \in Waves : ~Awaited(w)
  BY NoCallFields, JobTypes DEF Ready, Idle, Awaited

LEMMA EndIsKept ==
    ASSUME BrainInv, [BrainNext]_brainVars
    PROVE  JobInv' /\ EndInv'
<1> USE DEF BrainInv
<1>0. /\ TypeOK /\ job \in Job
      /\ \A w \in Waves : Joinable(w) =>
             alive[w] /\ (running[w] \/ Awaited(w))
  BY DEF BrainTypeOK, IInv, HandshakeInv
<1>1. ASSUME job' = job, call' = call, board' = board,
             \A w \in Waves : Joinable(w)' => Joinable(w)
      PROVE  JobInv' /\ EndInv'
  BY <1>1 DEF JobInv, EndInv, Ending, Awaited
<1>2. CASE BeginCommand
  <2>1. /\ call' = call /\ call = NoCall /\ job.at = "idle" /\ board' = board
        /\ call.at = "idle" /\ call.name = "none" /\ thread' = thread
        /\ \A w \in Waves : ~Awaited(w)
    BY <1>2, ReadyMeansIdle
    DEF BeginCommand, CreateWave, AddDynamicModule, Test, Quit, Construct, vars
  <2>2. CASE Quit
    <3>1. job'.at = "pause" /\ job'.todo = Alive
      BY <2>2, JobTypes DEF Quit, Alive
    <3>2. \A w \in Waves \ Alive : ~Joinable(w)
      BY <1>0 DEF Alive
    <3> QED
      BY <2>1, <3>1, <3>2 DEF JobInv, EndInv, Ending, Joinable, Awaited
  <2>3. CASE \E w \in Waves, m \in Modules : AddDynamicModule(w, m)
    <3>1. /\ job'.at = "construct"
          /\ job'.wave \in Waves /\ job'.module \in Modules
      BY <2>3 DEF AddDynamicModule
    <3> QED
      BY <2>1, <3>1 DEF JobInv, EndInv, Ending
  <2>4. CASE Test \/ \E w \in Waves : CreateWave(w)
    <3>1. job'.at \in {"idle", "launch"}
      BY <2>1, <2>4, JobTypes DEF Test, CreateWave, Then, Alive
    <3> QED
      BY <2>1, <3>1 DEF JobInv, EndInv, Ending
  <2> QED
    BY <1>2, <2>2, <2>3, <2>4 DEF BeginCommand
<1>3. CASE Registering
  <2>1. /\ UNCHANGED <<thread, call, job>> /\ job.at = "construct"
    BY <1>3 DEF Registering, Register
  <2> QED
    BY <2>1 DEF JobInv, EndInv, Ending
<1>4. CASE Continue /\ UNCHANGED <<board, access, step, job, ordered>>
  <2>1. call # NoCall /\ job' = job /\ board' = board /\ job.at # "construct"
    BY <1>4, NoCallFields
    DEF Continue, Join, Insert, Restart, Free, JobInv
  <2>2. JobInv'
    BY <2>1 DEF JobInv
  <2>3. CASE Join
    <3>1. call.wave \in Waves /\ call.at = "join"
      BY <2>1, <2>3 DEF Join, IInv, CallInv
    <3>2. /\ \A w \in Waves : Joinable(w)' => Joinable(w) /\ w # call.wave
          /\ call'.at \in {"idle", "insert", "free", "join"}
          /\ call'.at = "insert" => call.name = "add"
          /\ call'.at = "free" => call.name = "destroy"
          /\ call'.name \in {"none", call.name}
      <4>1. \/ /\ thread' = [thread EXCEPT ![call.wave] = Resting("none")]
               /\ call' = AfterJoin
            \/ /\ thread' = thread /\ ~Joinable(call.wave)
               /\ call' \in {call, NoCall}
        BY <2>3 DEF Join
      <4>2. \A w \in Waves : Joinable(w)' => Joinable(w) /\ w # call.wave
        <5>1. PICK c \in Waves : c = call.wave
          BY <3>1
        <5>2. /\ \A w \in Waves \ {c} : thread'[w] = thread[w]
              /\ thread'[c].at = "none"
          BY <1>0, <4>1, <5>1, RestingAt DEF Joinable, TypeOK
        <5> QED
          BY <5>1, <5>2 DEF Joinable
      <4>3. /\ AfterJoin.at \in {"idle", "insert", "free"}
            /\ AfterJoin.at = "insert" => call.name = "add"
            /\ AfterJoin.at = "free" => call.name = "destroy"
            /\ AfterJoin.name \in {"none", call.name}
        <5>1. call \in Call
          BY <1>0 DEF TypeOK
        <5>2. CASE call.name = "add"
          BY <5>1, <5>2 DEF AfterJoin, Call
        <5>3. CASE call.name = "destroy"
          BY <5>1, <5>3 DEF AfterJoin, Call
        <5>4. CASE call.name \notin {"add", "destroy"}
          BY <5>4, NoCallFields DEF AfterJoin
        <5> QED
          BY <5>2, <5>3, <5>4
      <4> QED
        BY <3>1, <4>1, <4>2, <4>3, NoCallFields
    <3> QED
      BY <2>1, <2>2, <3>1, <3>2 DEF EndInv, Ending, Awaited
  <2>4. CASE Insert \/ Restart
    <3>1. call.at \in {"insert", "restart"} /\ ~Ending
      BY <2>4 DEF Insert, Restart, EndInv
    <3>2. call'.at \in {"idle", "restart"} /\ call'.name \in {"none", call.name}
      BY <1>0, <2>4, NoCallFields DEF Insert, Restart, TypeOK, Call
    <3> QED
      BY <2>1, <2>2, <3>1, <3>2 DEF EndInv, Ending
  <2>5. CASE Free
    <3>1. thread' = thread /\ call' \in {call, NoCall}
      BY <2>5 DEF Free
    <3>2. job.at = "free"
      BY <2>5 DEF Free, EndInv
    <3> QED
      BY <2>1, <2>2, <3>1, <3>2, NoCallFields
      DEF EndInv, Ending, Awaited, Joinable
  <2> QED
    BY <1>4, <2>3, <2>4, <2>5 DEF Continue
<1>5. CASE Constructed
  <2>1. /\ call'.name = "add" /\ call'.at \in {"join", "insert"}
        /\ job'.at = "idle"
    BY <1>5, JobTypes DEF Constructed, AddModule, Stop
  <2> QED
    BY <2>1 DEF JobInv, EndInv, Ending
<1>6. ASSUME NEW w \in Waves, LaunchWave(w)
      PROVE  JobInv' /\ EndInv'
  <2>1. call' = call /\ job'.at \in {"idle", "launch"} /\ job.at = "launch"
    BY <1>6, <1>0, JobTypes DEF LaunchWave, Execute, Then, Job
  <2> QED
    BY <2>1 DEF JobInv, EndInv, Ending
<1>7. ASSUME NEW w \in Waves, PauseWave(w)
      PROVE  JobInv' /\ EndInv'
  <2>1. /\ job.at = "pause" /\ job'.at = "pause" /\ job'.todo = job.todo \ {w}
        /\ Idle /\ thread' = thread
    BY <1>7, <1>0, JobTypes DEF PauseWave, Pause, Job
  <2>2. \A v \in Waves : ~Awaited(v)
    BY <2>1, NoCallFields DEF Idle, Awaited
  <2>3. CASE ~running[w] /\ call' = call
    <3>1. ~Joinable(w)
      BY <1>0, <2>2, <2>3
    <3> QED
      BY <2>1, <2>3, <3>1 DEF JobInv, EndInv, Ending, Joinable, Awaited
  <2>4. CASE Stop(w, "pause", Nil, "idle")
    <3>1. /\ call'.name = "pause" /\ call'.at \in {"join", "idle"}
          /\ call'.wave = w
          /\ running[w] => call'.at = "join"
      BY <2>4 DEF Stop
    <3>2. Joinable(w) => Awaited(w)'
      BY <1>0, <2>2, <3>1 DEF Awaited
    <3> QED
      BY <2>1, <2>2, <3>1, <3>2 DEF JobInv, EndInv, Ending, Joinable, Awaited
  <2> QED
    BY <1>7, <2>3, <2>4 DEF PauseWave, Pause
<1>8. CASE ClearBoards
  <2>1. /\ job.at = "pause" /\ job.todo = {} /\ job'.at = "free"
        /\ Idle /\ call' = call /\ thread' = thread
        /\ board' = [w \in Waves |-> NewBoard]
    BY <1>8, JobTypes DEF ClearBoards, vars
  <2>2. \A w \in Waves : ~Joinable(w)
    BY <2>1, NoCallFields DEF Idle, Awaited, EndInv
  <2> QED
    BY <2>1, <2>2 DEF JobInv, EndInv, Ending, Joinable
<1>9. ASSUME NEW w \in Waves, ClearWave(w)
      PROVE  JobInv' /\ EndInv'
  <2>1. /\ job.at = "free" /\ job' = job /\ thread' = thread /\ board' = board
        /\ call'.name = "destroy" /\ call'.at \in {"join", "free"}
    BY <1>9 DEF ClearWave, Destroy, Stop
  <2> QED
    BY <2>1 DEF JobInv, EndInv, Ending, Joinable
<1>10. CASE Exit
  <2>1. /\ job.at = "free" /\ job'.at = "done" /\ Idle
        /\ UNCHANGED <<call, thread, board>>
    BY <1>10, JobTypes DEF Exit, vars
  <2> QED
    BY <2>1, NoCallFields DEF JobInv, EndInv, Ending, Joinable, Idle
<1>11. ASSUME NEW w \in Waves, WaveStep(w)
       PROVE  JobInv' /\ EndInv'
  <2>1. CASE CallAccess(w)
    <3>1. Joinable(w) /\ UNCHANGED <<thread, call, job>>
      BY <2>1, AccessTypes DEF CallAccess
    <3>2. job.at \notin {"free", "done"}
      BY <3>1 DEF EndInv
    <3> QED
      BY <3>1, <3>2 DEF JobInv, EndInv, Ending, Joinable, Awaited
  <2>2. CASE \/ Return(w)
             \/ /\ CheckFlag(w) \/ EndOfPass(w)
                /\ UNCHANGED <<board, access, step, job, ordered>>
    <3>1. ThreadStep(w) /\ thread[w].at # "none"
      BY <2>2 DEF Return, ThreadStep, CheckFlag, CallModule, EndOfPass
    <3>2. UNCHANGED <<call, job, board>>
      BY <2>2 DEF Return, CheckFlag, CallModule, EndOfPass
    <3>3. \A v \in Waves : Joinable(v)' => Joinable(v)
      BY <1>0, <3>1
      DEF ThreadStep, CheckFlag, CallModule, EndOfPass, Joinable, TypeOK
    <3> QED
      BY <1>1, <3>2, <3>3 DEF Ending
  <2> QED
    BY <1>11, <2>1, <2>2 DEF WaveStep
<1>12. CASE UNCHANGED brainVars
  BY <1>1, <1>12 DEF brainVars, vars, Joinable, Ending
<1> QED
  BY <1>2, <1>3, <1>4, <1>5, <1>6, <1>7, <1>8, <1>9, <1>10, <1>11, <1>12
  DEF BrainNext, Finish

LEMMA BrainStart == BrainInit => BrainInv
<1> SUFFICES ASSUME BrainInit PROVE BrainInv
  OBVIOUS
<1>1. TypeOK /\ IInv
  BY InitTypes, InitInv DEF BrainInit
<1>2. NewBoard \in [Keys -> Entry]
  BY EntryTypes DEF NewBoard
<1>3. /\ \A m \in Modules : access[m] = <<>>
      /\ access \in [Modules -> Seq(Access)]
  BY DEF BrainInit
<1>4. \A m \in Modules : Len(access[m]) <= MaxAccesses
  BY <1>3, BoundAssumption
<1>5. BrainTypeOK
  BY <1>1, <1>2, <1>3, <1>4, JobTypes, BoundAssumption
  DEF BrainInit, BrainTypeOK
<1>6. JobInv /\ DeadInv /\ EndInv
  BY JobTypes, NoCallFields
  DEF BrainInit, Init, JobInv, DeadInv, EndInv, Ending
<1> QED
  BY <1>1, <1>5, <1>6 DEF BrainInv

LEMMA BrainStep == BrainInv /\ [BrainNext]_brainVars => BrainInv'
  BY WavesAreKept, JobAndBoardTypes, EndIsKept DEF BrainInv

LEMMA BrainInvariance == BrainSpec => []BrainInv
<1> QED
  BY BrainStart, BrainStep, PTL DEF BrainSpec

-----------------------------------------------------------------------------

\* Boards, accessors, commands and everything of the waves keep their types.
THEOREM BrainTypesAreCorrect == BrainSpec => []BrainTypeOK
<1>1. BrainInv => BrainTypeOK
  BY DEF BrainInv
<1> QED
  BY <1>1, BrainInvariance, PTL

\* When the destructor of Brain clears the boards no wave has a thread any
\* more that could call an accessor, and none gets one.
THEOREM BoardsAlwaysOutliveThreads == BrainSpec => []BoardsOutliveThreads
<1>1. BrainInv => BoardsOutliveThreads
  BY DEF BrainInv, EndInv, BoardsOutliveThreads
<1> QED
  BY <1>1, BrainInvariance, PTL

\* No module, and so no library, goes while a board holds a value.
THEOREM LibrariesAlwaysOutliveValues == BrainSpec => LibrariesOutliveValues
<1> DEFINE A == (\E w \in Waves, k \in Keys : board[w][k].value # Nil)
                => \A w \in Waves, m \in Modules : Owns(w, m) => Owns(w, m)'
<1>1. BrainInv /\ [BrainNext]_brainVars => [A]_brainVars
  <2> SUFFICES ASSUME BrainInv, [BrainNext]_brainVars,
                      NEW v \in Waves, NEW k \in Keys, board[v][k].value # Nil,
                      NEW w \in Waves, NEW m \in Modules, Owns(w, m)
               PROVE  Owns(w, m)'
    OBVIOUS
  <2> USE DEF BrainInv
  <2>1. job.at \notin {"free", "done"}
    BY DEF EndInv, NewBoard, NoEntry
  <2>2. ~Free
    BY <2>1 DEF Free, EndInv
  <2>3. CASE modules' = modules
    BY <2>3 DEF Owns
  <2>4. CASE modules' # modules
    <3>1. [Next]_vars
      BY <2>4, StepOfWaves DEF CreatesWave, Throws
    <3>2. Insert
      BY <2>2, <2>4, <3>1, OnlyTwoStepsChangeLists
    <3>3. call.wave \in Waves /\ call.module \in Modules
      BY <3>2, NoCallFields DEF Insert, IInv, CallInv
    <3>4. PICK c \in Waves, n \in Modules : c = call.wave /\ n = call.module
      BY <3>3
    <3>5. /\ modules \in [Waves -> Seq(Modules)]
          /\ modules' = [modules EXCEPT ![c] = Append(modules[c], n)]
      BY <3>2, <3>4 DEF Insert, BrainTypeOK, TypeOK
    <3>6. PICK i \in 1..Len(modules[w]) : modules[w][i] = m
      BY DEF Owns
    <3>7. i \in 1..Len(modules'[w]) /\ modules'[w][i] = m
      <4>1. CASE c = w
        <5>1. modules'[w] = Append(modules[w], n) /\ modules[w] \in Seq(Modules)
          BY <3>5, <4>1
        <5> QED
          BY <3>6, <5>1
      <4>2. CASE c # w
        BY <3>5, <3>6, <4>2
      <4> QED
        BY <4>1, <4>2
    <3> QED
      BY <3>7 DEF Owns
  <2> QED
    BY <2>3, <2>4
<1> QED
  BY <1>1, BrainInvariance, PTL DEF BrainSpec, LibrariesOutliveValues

-----------------------------------------------------------------------------
(***************************************************************************)
(* Started waves find a record for what they read.                         *)
(***************************************************************************)

\* What is said of a key, and its record.
Agrees(e) == /\ e.state \in {"Provided", "GlobalProvided"} => e.recorded
             /\ e.recorded => e.state # "Absent"

(***************************************************************************)
(* A function that was granted is one of a board that "test" is going to   *)
(* ask, which knows the key; and while the waves are launched what boards  *)
(* said still holds.                                                       *)
(***************************************************************************)
GrantedInv ==
    \A m \in Modules : \A i \in 1 .. Len(access[m]) :
        LET a == access[m][i]
        IN  a.granted => alive[a.board] /\ board[a.board][a.key].state # "Absent"

Validated == \A w \in Waves : alive[w] => ValidateGlobals(w)

ServedInv ==
    job.at \notin {"free", "done"} =>
        /\ \A v \in Waves, k \in Keys : Agrees(board[v][k])
        /\ GrantedInv
        /\ job.at = "launch" => Validated

LEMMA KeysAgree ==
    ASSUME NEW e \in Entry, Agrees(e), NEW t \in Types, NEW op \in Ops
    PROVE  /\ Agrees(Registered(op, e, t)) /\ Registered(op, e, t).state # "Absent"
           /\ e.state # "Absent" => Agrees(Written(e, t))
           /\ Written(e, t).state = e.state
<1>1. /\ Agrees(Required(e, t)) /\ Required(e, t).state # "Absent"
      /\ Agrees(Provided(e, t)) /\ Provided(e, t).state # "Absent"
      /\ Agrees(GlobalProvided(e, t)) /\ GlobalProvided(e, t).state # "Absent"
  BY DEF Agrees, Entry, TypeState, Required, Provided, GlobalProvided, Emplaced
<1>2. /\ e.state # "Absent" => Agrees(Written(e, t))
      /\ Written(e, t).state = e.state
  BY DEF Agrees, Entry, Written
<1> QED
  BY <1>1, <1>2 DEF Registered, Ops, RequireOps, ProvideOps

LEMMA SameBoardsServe ==
    ASSUME ServedInv, UNCHANGED <<board, access>>, job.at \notin {"free", "done"},
           BrainTypeOK, BrainTypeOK',
           \A w \in Waves : alive[w] => alive'[w],
           job'.at = "launch" => Validated'
    PROVE  ServedInv'
<1>1. \A m \in Modules : \A i \in 1 .. Len(access[m]) : access[m][i] \in Access
  BY LenIsNat DEF BrainTypeOK
<1>2. GrantedInv'
  BY <1>1 DEF ServedInv, GrantedInv, Access
<1> QED
  BY <1>2 DEF ServedInv

LEMMA RegisteringServes ==
    ASSUME BrainInv, BrainTypeOK', ServedInv,
           NEW op \in Ops, NEW v \in Waves, NEW k \in Keys, NEW t \in Types,
           Register(op, v, k, t)
    PROVE  ServedInv'
<1> USE DEF BrainInv, BrainTypeOK
<1>1. /\ job.at = "construct" /\ job' = job /\ job.module \in Modules
      /\ alive' = [alive EXCEPT ![v] = TRUE]
      /\ alive \in [Waves -> BOOLEAN] /\ board \in [Waves -> [Keys -> Entry]]
  BY DEF Register, JobInv, TypeOK
<1>2. /\ \A w \in Waves : alive[w] => alive'[w]
      /\ alive'[v]
  BY <1>1
<1>3. /\ \A u \in Waves, l \in Keys : Agrees(board[u][l])
      /\ GrantedInv
  BY <1>1 DEF ServedInv
<1>4. CASE UNCHANGED <<board, access>>
  BY <1>1, <1>2, <1>4, SameBoardsServe
<1>5. ASSUME NEW e \in Entry, Agrees(e),
             e.state # "Absent" \/ (e = board[v][k] /\ e.state = "Absent"),
             board' = [board EXCEPT ![v][k] = e],
             board[v][k].state # "Absent" => e.state # "Absent",
             NEW granted \in BOOLEAN, Given(op, v, k, t, granted),
             granted => e.state # "Absent"
      PROVE  ServedInv'
  <2>1. \A u \in Waves, l \in Keys : board'[u][l] = IF u = v /\ l = k THEN e ELSE board[u][l]
    BY <1>1, <1>5
  <2>2. \A u \in Waves, l \in Keys : Agrees(board'[u][l])
    BY <1>3, <1>5, <2>1
  <2> DEFINE a == [op |-> op, board |-> v, key |-> k, type |-> t, granted |-> granted]
             s == access[job.module]
  <2>3. /\ s \in Seq(Access) /\ Len(s) \in Nat /\ a \in Access
        /\ a.granted = granted /\ a.board = v /\ a.key = k
    BY <1>1, LenIsNat DEF Access
  <2>4. /\ access'[job.module] = Append(s, a)
        /\ \A m \in Modules \ {job.module} : access'[m] = access[m]
    BY <1>1, <1>5 DEF Given
  <2> HIDE DEF a, s
  <2>5. \A m \in Modules : \A i \in 1 .. Len(access'[m]) :
            access'[m][i] = a \/ (i \in 1 .. Len(access[m]) /\ access'[m][i] = access[m][i])
    <3>1. \A i \in 1 .. Len(Append(s, a)) :
              Append(s, a)[i] = a \/ (i \in 1 .. Len(s) /\ Append(s, a)[i] = s[i])
      BY <2>3
    <3> QED
      BY <2>4, <3>1 DEF s
  <2>6. GrantedInv'
    <3> SUFFICES ASSUME NEW m \in Modules, NEW i \in 1 .. Len(access'[m]),
                        access'[m][i].granted
                 PROVE  /\ alive'[access'[m][i].board]
                        /\ board'[access'[m][i].board][access'[m][i].key].state # "Absent"
      BY DEF GrantedInv
    <3>1. CASE access'[m][i] = a
      BY <1>2, <1>5, <2>1, <2>3, <3>1
    <3>2. CASE i \in 1 .. Len(access[m]) /\ access'[m][i] = access[m][i]
      <4>1. access[m] \in Seq(Access) /\ access[m][i] \in Access
        BY <3>2, LenIsNat
      <4>2. access[m][i].board \in Waves /\ access[m][i].key \in Keys
        BY <4>1 DEF Access
      <4>3. /\ alive[access[m][i].board]
            /\ board[access[m][i].board][access[m][i].key].state # "Absent"
        BY <1>3, <3>2 DEF GrantedInv
      <4> QED
        BY <1>2, <1>5, <2>1, <3>2, <4>2, <4>3
    <3> QED
      BY <2>5, <3>1, <3>2
  <2> QED
    BY <1>1, <2>2, <2>6 DEF ServedInv
<1>6. CASE /\ Refusal(op, board[v][k], t) = "None"
           /\ board' = [board EXCEPT ![v][k] = Registered(op, board[v][k], t)]
           /\ Given(op, v, k, t, TRUE)
  <2>1. /\ board[v][k] \in Entry /\ Agrees(board[v][k])
    BY <1>1, <1>3
  <2>2. /\ Registered(op, board[v][k], t) \in Entry
        /\ Agrees(Registered(op, board[v][k], t))
        /\ Registered(op, board[v][k], t).state # "Absent"
    BY <2>1, EntryTypes, KeysAgree
  <2> QED
    BY <1>5, <1>6, <2>2
<1>7. CASE board' = board /\ Given(op, v, k, t, FALSE)
  <2>1. board' = [board EXCEPT ![v][k] = board[v][k]]
    BY <1>1, <1>7
  <2>2. board[v][k] \in Entry /\ Agrees(board[v][k])
    BY <1>1, <1>3
  <2> QED
    BY <1>5, <1>7, <2>1, <2>2
<1> QED
  BY <1>4, <1>6, <1>7 DEF Register

LEMMA AccessServes ==
    ASSUME BrainInv, BrainTypeOK', ServedInv, NEW w \in Waves, CallAccess(w)
    PROVE  ServedInv'
<1> USE DEF BrainInv, BrainTypeOK
<1>1. /\ InAccess(w) /\ UNCHANGED <<access, alive, job>>
      /\ board \in [Waves -> [Keys -> Entry]]
  BY DEF CallAccess
<1>2. /\ Current(w) \in Modules /\ NextAccess(w) \in Access /\ Joinable(w)
      /\ step[w] + 1 \in Nat /\ step[w] \in Nat
  BY <1>1, AccessTypes, BoundAssumption
<1>3. job.at \notin {"free", "done"}
  BY <1>2 DEF EndInv
<1>4. CASE UNCHANGED board
  BY <1>1, <1>3, <1>4, SameBoardsServe DEF ServedInv, Validated, ValidateGlobals
<1>5. CASE /\ NextAccess(w).granted
           /\ board' = [board EXCEPT ![NextAccess(w).board][NextAccess(w).key] =
                            Written(board[NextAccess(w).board][NextAccess(w).key],
                                    NextAccess(w).type)]
  <2>1. PICK v \in Waves, k \in Keys, t \in Types :
            v = NextAccess(w).board /\ k = NextAccess(w).key /\ t = NextAccess(w).type
    BY <1>2 DEF Access
  <2>2. Len(access[Current(w)]) \in Nat /\ step[w] + 1 \in 1 .. Len(access[Current(w)])
    BY <1>1, <1>2, LenIsNat DEF InAccess
  <2>3. board[v][k].state # "Absent" /\ board[v][k] \in Entry /\ Agrees(board[v][k])
    <3>1. PICK m \in Modules, i \in Nat :
              i \in 1 .. Len(access[m]) /\ NextAccess(w) = access[m][i]
      BY <1>2, <2>2 DEF NextAccess
    <3>2. board[v][k].state # "Absent"
      BY <1>3, <1>5, <2>1, <3>1 DEF ServedInv, GrantedInv
    <3> QED
      BY <1>1, <1>3, <3>2 DEF ServedInv
  <2>4. PICK e \in Entry : /\ e = Written(board[v][k], t) /\ Agrees(e)
                           /\ e.state = board[v][k].state
    BY <2>3, EntryTypes, KeysAgree DEF Ops, RequireOps
  <2>5. board' = [board EXCEPT ![v][k] = e]
    BY <1>5, <2>1, <2>4
  <2>6. \A u \in Waves, l \in Keys : /\ board'[u][l].state = board[u][l].state
                                     /\ Agrees(board'[u][l])
    BY <1>1, <1>3, <2>4, <2>5 DEF ServedInv
  <2>7. \A m \in Modules : \A i \in 1 .. Len(access[m]) : access[m][i] \in Access
    BY LenIsNat
  <2>8. GrantedInv'
    <3> SUFFICES ASSUME NEW m \in Modules, NEW i \in 1 .. Len(access[m]),
                        access[m][i].granted
                 PROVE  /\ alive[access[m][i].board]
                        /\ board'[access[m][i].board][access[m][i].key].state # "Absent"
      BY <1>1 DEF GrantedInv
    <3>1. access[m][i].board \in Waves /\ access[m][i].key \in Keys
      BY <2>7 DEF Access
    <3>2. /\ alive[access[m][i].board]
          /\ board[access[m][i].board][access[m][i].key].state # "Absent"
      BY <1>3 DEF ServedInv, GrantedInv
    <3> QED
      BY <2>6, <3>1, <3>2
  <2>9. job.at = "launch" => Validated'
    BY <1>1, <1>3, <2>6 DEF ServedInv, Validated, ValidateGlobals
  <2> QED
    BY <1>1, <2>6, <2>8, <2>9 DEF ServedInv
<1> QED
  BY <1>4, <1>5 DEF CallAccess

LEMMA ServedStep ==
    ASSUME BrainInv, BrainInv', ServedInv, [BrainNext]_brainVars
    PROVE  ServedInv'
<1> USE DEF BrainInv
<1>0. job \in Job /\ alive \in [Waves -> BOOLEAN]
  BY DEF BrainTypeOK, TypeOK
<1>1. CASE job'.at \in {"free", "done"}
  BY <1>1 DEF ServedInv
<1>2. ASSUME job.at \notin {"free", "done"}, UNCHANGED <<board, access, alive>>,
             job'.at = "launch" => job.at = "launch"
      PROVE  ServedInv'
  BY <1>2, SameBoardsServe DEF ServedInv, Validated, ValidateGlobals
<1>3. CASE BeginCommand
  <2>1. job.at = "idle" /\ UNCHANGED <<board, access>>
    BY <1>3, ReadyMeansIdle
    DEF BeginCommand, CreateWave, AddDynamicModule, Test, Quit
  <2>2. CASE \E v \in Waves : CreateWave(v)
    <3>1. job' = job /\ \A w \in Waves : alive[w] => alive'[w]
      BY <1>0, <2>2 DEF CreateWave, Construct
    <3> QED
      BY <2>1, <3>1, SameBoardsServe
  <2>3. CASE \/ Quit \/ \E v \in Waves, m \in Modules : AddDynamicModule(v, m)
    <3>1. job'.at # "launch" /\ UNCHANGED alive
      BY <2>3, JobTypes DEF Quit, AddDynamicModule, vars, Alive
    <3> QED
      BY <1>2, <2>1, <3>1
  <2>4. CASE Test
    <3>1. Validated /\ UNCHANGED alive
      BY <2>4 DEF Test, Validated, Alive, vars
    <3>2. Validated'
      BY <2>1, <3>1 DEF Validated, ValidateGlobals
    <3> QED
      BY <2>1, <3>1, <3>2, SameBoardsServe
  <2> QED
    BY <1>3, <2>2, <2>3, <2>4 DEF BeginCommand
<1>4. CASE Registering
  BY <1>4, RegisteringServes DEF Registering
<1>5. CASE Continue /\ UNCHANGED <<board, access, step, job, ordered>>
  <2>1. CASE job.at \in {"free", "done"}
    BY <1>1, <1>5, <2>1
  <2>2. CASE job.at \notin {"free", "done"}
    <3>1. UNCHANGED alive
      <4>1. ~Free
        BY <2>2 DEF Free, EndInv
      <4> QED
        BY <1>5, <4>1 DEF Continue, Join, Insert, Restart, Launch
    <3> QED
      BY <1>2, <1>5, <2>2, <3>1
  <2> QED
    BY <2>1, <2>2
<1>6. CASE Constructed
  <2>1. /\ job.at = "construct" /\ job'.at = "idle" /\ UNCHANGED <<board, access, alive>>
    BY <1>6, JobTypes DEF Constructed, AddModule
  <2> QED
    BY <1>2, <2>1
<1>7. CASE ClearBoards \/ Exit
  BY <1>1, <1>7, JobTypes DEF ClearBoards, Exit
<1>8. ASSUME NEW w \in Waves, LaunchWave(w) \/ PauseWave(w)
      PROVE  ServedInv'
  <2>1. /\ job.at \in {"launch", "pause"} /\ UNCHANGED <<board, access, alive>>
        /\ job.at = "pause" => job'.at = "pause"
    <3>1. job.todo \ {w} \in SUBSET Waves
      BY <1>0 DEF Job
    <3> QED
      BY <1>8, <3>1, JobTypes DEF LaunchWave, PauseWave, Execute, Launch, Pause, Stop
  <2> QED
    BY <1>2, <2>1
<1>9. CASE \E w \in Waves : ClearWave(w)
  BY <1>1, <1>9 DEF ClearWave
<1>10. ASSUME NEW w \in Waves, WaveStep(w)
       PROVE  ServedInv'
  <2>1. CASE CallAccess(w)
    BY <2>1, AccessServes
  <2>2. CASE ~CallAccess(w)
    <3>1. UNCHANGED <<board, access, alive, job>>
      BY <1>10, <2>2 DEF WaveStep, Return, CheckFlag, EndOfPass, CallModule
    <3> QED
      BY <1>1, <1>2, <3>1
  <2> QED
    BY <2>1, <2>2
<1>11. CASE UNCHANGED brainVars
  BY <1>1, <1>2, <1>11 DEF brainVars, vars
<1> QED
  BY <1>3, <1>4, <1>5, <1>6, <1>7, <1>8, <1>9, <1>10, <1>11
  DEF BrainNext, Finish

(***************************************************************************)
(* When "test" starts the waves, every function they were given to read    *)
(* with finds a record, in whatever order registrations came, and on the   *)
(* boards of other waves too.                                              *)
(***************************************************************************)
THEOREM StartedReadsAreServed == BrainSpec => []StartedReadsFindRecord
<1>1. BrainInit => ServedInv
  <2> SUFFICES ASSUME BrainInit PROVE ServedInv
    OBVIOUS
  <2>1. \A v \in Waves, k \in Keys : Agrees(board[v][k])
    BY DEF BrainInit, NewBoard, NoEntry, Agrees
  <2>2. \A m \in Modules : 1 .. Len(access[m]) = {}
    BY DEF BrainInit
  <2>3. job.at = "idle"
    BY JobTypes DEF BrainInit
  <2> QED
    BY <2>1, <2>2, <2>3 DEF ServedInv, GrantedInv
<1>2. BrainInv /\ BrainInv' /\ ServedInv /\ [BrainNext]_brainVars => ServedInv'
  BY ServedStep
<1>3. BrainInv /\ ServedInv => StartedReadsFindRecord
  <2> SUFFICES ASSUME BrainInv, ServedInv, job.at = "launch",
                      NEW m \in Modules, NEW i \in 1 .. Len(access[m]),
                      access[m][i].granted
               PROVE  board[access[m][i].board][access[m][i].key].recorded
    BY DEF StartedReadsFindRecord
  <2>1. PICK v \in Waves, k \in Keys : v = access[m][i].board /\ k = access[m][i].key
    <3>1. access[m] \in Seq(Access) /\ access[m][i] \in Access
      BY LenIsNat DEF BrainInv, BrainTypeOK
    <3> QED
      BY <3>1 DEF Access
  <2>2. alive[v] /\ board[v][k].state # "Absent" /\ Agrees(board[v][k])
    BY <2>1 DEF ServedInv, GrantedInv
  <2>3. board[v][k].state # "Requested"
    BY <2>2 DEF ServedInv, Validated, ValidateGlobals
  <2>4. board[v][k] \in Entry
    BY DEF BrainInv, BrainTypeOK
  <2> QED
    BY <2>1, <2>2, <2>3, <2>4 DEF Agrees, Entry, TypeState
<1> QED
  BY <1>1, <1>2, <1>3, BrainInvariance, PTL DEF BrainSpec

-----------------------------------------------------------------------------
(***************************************************************************)
(* What Brain does to its waves, a BrainWave allows.                       *)
(***************************************************************************)

WaveFate == CASE fate = "misread"                   -> "threw"
              [] fate \in {"uncaught", "undefined"} -> "up"
              [] OTHER                              -> fate

\* A step of BrainWave is one, too, where every module may throw.
LEMMA StepsAgree ==
    ASSUME [Next]_vars
    PROVE  [AsWaves!Next]_(AsWaves!vars)
<1> USE DEF AsWaves!Cleared, AsWaves!WaitOr, AsWaves!IndexIn, AsWaves!With,
            AsWaves!Begun, AsWaves!PassOver, AsWaves!Resting, AsWaves!Joinable,
            AsWaves!NoCall, AsWaves!Idle, AsWaves!NoIndices, AsWaves!Owns,
            Resting, Joinable, NoCall, Idle, NoIndices, Owns
<1>1. CASE UNCHANGED vars
  BY <1>1 DEF vars, AsWaves!vars
<1>2. CASE Next
  <2>1. fate = "up" /\ fate' \in {"up", "threw", "overwritten", "join failed"}
    BY <1>2 DEF Next, Begin, Continue, ThreadStep, Construct, Execute, Launch,
                Pause, Destroy, AddModule, Join, Insert, Restart, Free,
                CheckFlag, CallModule, EndOfPass
  <2>2. WaveFate = "up" /\ WaveFate' = fate'
    BY <1>2, <2>1 DEF WaveFate
  <2>3. ASSUME NEW w \in Waves, Construct(w)
        PROVE  AsWaves!Construct(w)
    BY <2>1, <2>2, <2>3 DEF Construct, AsWaves!Construct, WaveFate
  <2>4. ASSUME NEW w, Launch(w)
        PROVE  AsWaves!Launch(w)
    BY <2>1, <2>2, <2>4 DEF Launch, AsWaves!Launch, WaveFate
  <2>5. ASSUME NEW w \in Waves, Execute(w)
        PROVE  AsWaves!Execute(w)
    BY <2>1, <2>2, <2>4, <2>5 DEF Execute, AsWaves!Execute, WaveFate
  <2>6. ASSUME NEW w \in Waves, Pause(w)
        PROVE  AsWaves!Pause(w)
    BY <2>1, <2>2, <2>6
    DEF Pause, AsWaves!Pause, Stop, AsWaves!Stop, WaveFate
  <2>7. ASSUME NEW w \in Waves, NEW m \in Modules, AddModule(w, m)
        PROVE  AsWaves!AddModule(w, m)
    BY <2>1, <2>2, <2>7
    DEF AddModule, AsWaves!AddModule, Stop, AsWaves!Stop, WaveFate
  <2>8. ASSUME NEW w \in Waves, Destroy(w)
        PROVE  AsWaves!Destroy(w)
    BY <2>1, <2>2, <2>8
    DEF Destroy, AsWaves!Destroy, Stop, AsWaves!Stop, WaveFate
  <2>9. ASSUME Join PROVE AsWaves!Join
    BY <2>1, <2>2, <2>9
    DEF Join, AsWaves!Join, AfterJoin, AsWaves!AfterJoin, WaveFate
  <2>10. ASSUME Insert PROVE AsWaves!Insert
    BY <2>1, <2>2, <2>10 DEF Insert, AsWaves!Insert, WaveFate
  <2>11. ASSUME Restart PROVE AsWaves!Restart
    BY <2>1, <2>2, <2>4, <2>11 DEF Restart, AsWaves!Restart, WaveFate
  <2>12. ASSUME Free PROVE AsWaves!Free
    BY <2>1, <2>2, <2>12 DEF Free, AsWaves!Free, WaveFate
  <2>13. ASSUME NEW w \in Waves, ThreadStep(w)
         PROVE  AsWaves!ThreadStep(w)
    <3>1. CASE CheckFlag(w)
      BY <2>1, <2>2, <3>1
      DEF CheckFlag, AsWaves!CheckFlag, AsWaves!ThreadStep, WaveFate
    <3>2. CASE CallModule(w)
      BY <2>1, <2>2, <3>2, FaultAssumption
      DEF CallModule, AsWaves!CallModule, AsWaves!ThreadStep, WaveFate
    <3>3. CASE EndOfPass(w)
      BY <2>1, <2>2, <3>3
      DEF EndOfPass, AsWaves!EndOfPass, AsWaves!ThreadStep, WaveFate
    <3> QED
      BY <2>13, <3>1, <3>2, <3>3 DEF ThreadStep
  <2> QED
    BY <1>2, <2>3, <2>5, <2>6, <2>7, <2>8, <2>9, <2>10, <2>11, <2>12, <2>13
    DEF Next, Begin, Continue, AsWaves!Next, AsWaves!Begin, AsWaves!Continue
<1> QED
  BY <1>1, <1>2

\* So a wave that a registration creates is constructed, and a module that an
\* accessor fails throws: every theorem about BrainWave holds of a Brain.
THEOREM BrainImplementsWaves == BrainSpec => UsesWavesProperly
<1> USE DEF AsWaves!Resting, AsWaves!NoCall, AsWaves!Idle, AsWaves!NoIndices,
            Resting, NoCall, Idle, NoIndices
<1>1. BrainInit => AsWaves!Init
  BY DEF BrainInit, Init, AsWaves!Init
<1>2. BrainInv /\ [BrainNext]_brainVars => [AsWaves!Next]_(AsWaves!vars)
  <2> SUFFICES ASSUME BrainInv, [BrainNext]_brainVars
               PROVE  [AsWaves!Next]_(AsWaves!vars)
    OBVIOUS
  <2>1. CASE [Next]_vars
    BY <2>1, StepsAgree
  <2>2. CASE CreatesWave
    <3>1. /\ WaveFate = "up" /\ WaveFate' = "up" /\ call = NoCall
          /\ UNCHANGED <<running, thread, modules, indices, call>>
      BY <2>2 DEF CreatesWave, WaveFate, BrainInv, JobInv
    <3>2. PICK v \in Waves : alive' = [alive EXCEPT ![v] = TRUE]
      BY <2>2 DEF CreatesWave
    <3>3. alive \in [Waves -> BOOLEAN] /\ running \in [Waves -> BOOLEAN]
      BY DEF BrainInv, BrainTypeOK, TypeOK
    <3>4. CASE alive[v]
      <4>1. alive' = alive
        BY <3>2, <3>3, <3>4
      <4> QED
        BY <3>1, <4>1 DEF AsWaves!vars, WaveFate
    <3>5. CASE ~alive[v]
      <4>1. running' = [running EXCEPT ![v] = FALSE]
        BY <3>1, <3>3, <3>5 DEF BrainInv, DeadInv
      <4>2. AsWaves!Construct(v)
        BY <3>1, <3>2, <3>5, <4>1 DEF AsWaves!Construct, WaveFate
      <4> QED
        BY <4>2 DEF AsWaves!Next, AsWaves!Begin
    <3> QED
      BY <3>4, <3>5
  <2>3. CASE Throws
    <3>1. /\ WaveFate = "up" /\ WaveFate' = "threw"
          /\ UNCHANGED <<alive, running, thread, modules, indices, call>>
      BY <2>3 DEF Throws, WaveFate
    <3>2. PICK w \in Waves : InAccess(w)
      BY <2>3 DEF Throws
    <3>3. /\ thread[w].at = "loop" /\ thread[w].next <= thread[w].last
          /\ modules[w][thread[w].next] \in Modules
      BY <3>2, AccessTypes DEF InAccess, Calling, Current, BrainInv
    <3>4. AsWaves!CallModule(w)
      BY <3>1, <3>3 DEF AsWaves!CallModule, WaveFate
    <3> QED
      BY <3>4 DEF AsWaves!Next, AsWaves!ThreadStep
  <2> QED
    BY <2>1, <2>2, <2>3, StepOfWaves DEF BrainInv
<1> QED
  BY <1>1, <1>2, BrainInvariance, PTL
  DEF BrainSpec, UsesWavesProperly, AsWaves!Spec

=============================================================================
