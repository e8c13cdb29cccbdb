-------------------------- MODULE BrainReadsProofs --------------------------
(***************************************************************************)
(* Proof that reads succeed in a Brain where no key is requested before it *)
(* is provided: the functions a wave's modules were given are called, in   *)
(* each pass, in the order they were registered in, so that a read is      *)
(* always preceded by the provider it was type-checked against.            *)
(***************************************************************************)
EXTENDS BrainProofs

USE DEF Cleared, WaitOr, IndexIn, With, Begun, PassOver

-----------------------------------------------------------------------------
(***************************************************************************)
(* Places.  The functions noted by the modules of a wave have a place each *)
(* in its passes: which module, and which of its functions.  The module    *)
(* that is being constructed, or waits to be put in the list, has a place  *)
(* behind the others.                                                      *)
(***************************************************************************)
Place == Nat \X Nat

Before(p, q) == p[1] < q[1] \/ (p[1] = q[1] /\ p[2] < q[2])

Comes(v, m) == \/ job.at = "construct" /\ job.wave = v /\ job.module = m
               \/ Adding /\ call.wave = v /\ call.module = m

At(v, i, m) == \/ i \in 1..Len(modules[v]) /\ modules[v][i] = m
               \/ i = Len(modules[v]) + 1 /\ Comes(v, m)

Noted(v, p, a) == \E m \in Modules : /\ At(v, p[1], m)
                                     /\ p[2] \in 1..Len(access[m])
                                     /\ a = access[m][p[2]]

\* What the thread of w calls next.
Cursor(w) == <<thread[w].next, step[w] + 1>>

\* Until the boards are cleared, or the program ends.
Live == fate = "up" /\ ordered /\ job.at \notin {"free", "done"}

-----------------------------------------------------------------------------
(***************************************************************************)
(* No module has two places, and one that has no place has no functions.   *)
(***************************************************************************)
PlaceInv ==
    /\ OwnedOnce /\ AddInv /\ SpawnInv
    /\ job.at = "construct" => \A v \in Waves : ~Owns(v, job.module)
    /\ Live => \A m \in Modules : access[m] # <<>> =>
                   \E v \in Waves, i \in Nat : At(v, i, m)
    /\ \A w \in Waves : step[w] # 0 => Calling(w)

PlacedInv == BrainInv /\ PlaceInv

LEMMA LenOfList ==
    ASSUME BrainTypeOK
    PROVE  /\ \A v \in Waves : /\ modules[v] \in Seq(Modules)
                               /\ Len(modules[v]) \in Nat
           /\ \A m \in Modules : /\ access[m] \in Seq(Access)
                                 /\ Len(access[m]) \in Nat
  BY LenIsNat DEF BrainTypeOK, TypeOK

LEMMA BeforeIsOrder ==
    /\ \A p \in Place : ~Before(p, p)
    /\ \A p, q \in Place : p = q \/ Before(p, q) \/ Before(q, p)
    /\ \A p, q, r \in Place : Before(p, q) /\ Before(q, r) => Before(p, r)
  BY DEF Before, Place

LEMMA OnePlace ==
    ASSUME PlacedInv
    PROVE  /\ \A u, v \in Waves, i, j \in Nat, m \in Modules :
                  At(u, i, m) /\ At(v, j, m) => u = v /\ i = j
           /\ \A v \in Waves, i \in Nat, m, n \in Modules :
                  At(v, i, m) /\ At(v, i, n) => m = n
<1> USE DEF PlacedInv
<1>1. ASSUME NEW m \in Modules, NEW v \in Waves, Comes(v, m)
      PROVE  \A u \in Waves : \A i \in 1..Len(modules[u]) : modules[u][i] # m
  BY <1>1 DEF Comes, PlaceInv, AddInv, Owns
<1>2. \A u, v \in Waves, m, n \in Modules :
          Comes(u, m) /\ Comes(v, n) => u = v /\ m = n
  BY NoCallFields DEF Comes, Adding, BrainInv, JobInv
<1>3. \A v \in Waves : Len(modules[v]) \in Nat
  BY LenOfList DEF BrainInv
<1> HIDE DEF PlacedInv
<1>4. ASSUME NEW u \in Waves, NEW v \in Waves, NEW i \in Nat, NEW j \in Nat,
             NEW m \in Modules, At(u, i, m), At(v, j, m)
      PROVE  u = v /\ i = j
  BY <1>1, <1>2, <1>3, <1>4 DEF At, PlacedInv, PlaceInv, OwnedOnce
<1>5. ASSUME NEW v \in Waves, NEW i \in Nat, NEW m \in Modules,
             NEW n \in Modules, At(v, i, m), At(v, i, n)
      PROVE  m = n
  BY <1>2, <1>3, <1>5 DEF At
<1> QED
  BY <1>4, <1>5

LEMMA OneNote ==
    ASSUME PlacedInv, NEW v \in Waves
    PROVE  /\ \A p \in Place : \A a, b : Noted(v, p, a) /\ Noted(v, p, b) => a = b
           /\ \A p \in Place : \A a : Noted(v, p, a) => a \in Access
<1>1. \A p \in Place : p[1] \in Nat
  BY DEF Place
<1>2. ASSUME NEW p \in Place, NEW a, Noted(v, p, a)
      PROVE  a \in Access
  BY <1>2, LenOfList DEF Noted, PlacedInv, BrainInv
<1>3. ASSUME NEW p \in Place, NEW a, NEW b, Noted(v, p, a), Noted(v, p, b)
      PROVE  a = b
  BY <1>1, <1>3, OnePlace DEF Noted
<1> QED
  BY <1>2, <1>3

-----------------------------------------------------------------------------
(***************************************************************************)
(* Places are kept.                                                        *)
(***************************************************************************)

LEMMA StageAt ==
    /\ \A at, todo : Stage(at, todo).at = at
    /\ NoJob.at = "idle"
  BY DEF Stage, NoJob

LEMMA LiveBack ==
    ASSUME PlacedInv, [BrainNext]_brainVars, Live'
    PROVE  Live
<1> USE DEF Live
<1>1. CASE UNCHANGED brainVars
  BY <1>1 DEF brainVars, vars
<1>2. CASE BeginCommand
  BY <1>2, JobTypes
  DEF BeginCommand, CreateWave, AddDynamicModule, Test, Quit, Construct, Ready,
      Idle, vars
<1>3. CASE Registering
  <2>1. PICK op \in Ops, v \in Waves, k \in Keys, t \in Types :
            Register(op, v, k, t)
    BY <1>3 DEF Registering
  <2>2. fate = "up" /\ job.at = "construct" /\ (ordered' => ordered)
    BY <2>1 DEF Register
  <2> QED
    BY <2>2
<1>4. CASE Continue /\ UNCHANGED <<board, access, step, job, ordered>>
  BY <1>4 DEF Continue, Join, Insert, Restart, Free
<1>5. CASE Constructed \/ ClearBoards \/ Exit
  BY <1>5, StageAt
  DEF Constructed, AddModule, ClearBoards, Exit, Idle, vars
<1>6. CASE \E w \in Waves : LaunchWave(w) \/ PauseWave(w) \/ ClearWave(w)
  BY <1>6 DEF LaunchWave, PauseWave, ClearWave, Execute, Pause, Destroy, Idle
<1>7. CASE \E w \in Waves : WaveStep(w)
  BY <1>7 DEF WaveStep, CallAccess, Return, CheckFlag, CallModule, EndOfPass
<1> QED
  BY <1>1, <1>2, <1>3, <1>4, <1>5, <1>6, <1>7 DEF BrainNext, Finish

\* Only "add" gives a place to a module; nothing takes one away.
LEMMA PlacesAreKept ==
    ASSUME PlacedInv, [BrainNext]_brainVars, Live'
    PROVE  \A v \in Waves, i \in Nat, m \in Modules :
               At(v, i, m)' <=> \/ At(v, i, m)
                                \/ /\ AddDynamicModule(v, m)
                                   /\ i = Len(modules[v]) + 1
<1> USE DEF PlacedInv
<1>0. Live /\ \A v \in Waves : Len(modules[v]) \in Nat
  BY LiveBack, LenOfList DEF BrainInv
<1>1. ASSUME modules' = modules,
             \A v \in Waves, m \in Modules : Comes(v, m)' <=> Comes(v, m),
             \A v \in Waves, m \in Modules : ~AddDynamicModule(v, m)
      PROVE  \A v \in Waves, i \in Nat, m \in Modules :
                 At(v, i, m)' <=> \/ At(v, i, m)
                                  \/ /\ AddDynamicModule(v, m)
                                     /\ i = Len(modules[v]) + 1
  BY <1>1 DEF At
<1>2. ASSUME modules' = modules, job'.at # "construct", job.at # "construct",
             ~Adding, ~Adding',
             \A v \in Waves, m \in Modules : ~AddDynamicModule(v, m)
      PROVE  \A v \in Waves, i \in Nat, m \in Modules :
                 At(v, i, m)' <=> \/ At(v, i, m)
                                  \/ /\ AddDynamicModule(v, m)
                                     /\ i = Len(modules[v]) + 1
  BY <1>1, <1>2 DEF Comes
<1>3. ASSUME UNCHANGED <<modules, job, call>>
      PROVE  \A v \in Waves, m \in Modules : Comes(v, m)' <=> Comes(v, m)
  BY <1>3 DEF Comes, Adding
<1>4. ASSUME NEW v \in Waves, NEW m \in Modules, AddDynamicModule(v, m)
      PROVE  /\ modules' = modules
             /\ \A u \in Waves, n \in Modules : ~Comes(u, n)
             /\ \A u \in Waves, n \in Modules :
                    /\ Comes(u, n)' <=> u = v /\ n = m
                    /\ AddDynamicModule(u, n) <=> u = v /\ n = m
  <2>1. /\ job'.at = "construct" /\ job'.wave = v /\ job'.module = m
        /\ job.at = "idle" /\ call = NoCall /\ UNCHANGED <<modules, call>>
    BY <1>4, JobTypes DEF AddDynamicModule, Ready, Idle, vars
  <2> QED
    BY <1>4, <2>1, NoCallFields DEF AddDynamicModule, Comes, Adding
<1>5. CASE \E v \in Waves, m \in Modules : AddDynamicModule(v, m)
  BY <1>0, <1>4, <1>5 DEF At
<1>6. CASE BeginCommand /\ \A v \in Waves, m \in Modules : ~AddDynamicModule(v, m)
  <2>1. /\ modules' = modules /\ job.at = "idle" /\ job'.at # "construct"
        /\ call = NoCall /\ call' = NoCall
    BY <1>6, StageAt
    DEF BeginCommand, CreateWave, Test, Quit, Then, Construct, Ready, Idle, vars
  <2> QED
    BY <1>2, <1>6, <2>1, NoCallFields DEF Adding
<1>7. CASE Registering
  BY <1>1, <1>3, <1>7, StageAt
  DEF Registering, Register, AddDynamicModule, Ready
<1>8. ASSUME Continue, UNCHANGED <<board, access, step, job, ordered>>
      PROVE  \A v \in Waves, i \in Nat, m \in Modules : At(v, i, m)' <=> At(v, i, m)
  <2>1. call # NoCall /\ job.at # "construct" /\ job' = job
    BY <1>8, NoCallFields
    DEF Continue, Join, Insert, Restart, Free, BrainInv, JobInv
  <2>2. CASE Join
    <3>1. PICK c \in Waves : c = call.wave
      BY <2>1 DEF BrainInv, IInv, CallInv
    <3>2. Joinable(c) /\ SpawnMayFail = FALSE
      BY <2>2, <3>1, SpawnAssumption DEF Join, PlaceInv, SpawnInv, Awaited
    <3>3. call' = AfterJoin /\ modules' = modules /\ call.at = "join"
      BY <2>2, <3>1, <3>2 DEF Join
    <3>4. call.name # "destroy"
      BY <1>0 DEF Live, BrainInv, EndInv
    <3>5. CASE call.name = "add"
      <4>1. /\ call'.name = "add" /\ call'.at = "insert"
            /\ call'.wave = call.wave /\ call'.module = call.module
        BY <3>3, <3>5 DEF AfterJoin, BrainInv, BrainTypeOK, TypeOK, Call
      <4> QED
        BY <2>1, <3>3, <3>5, <4>1 DEF At, Comes, Adding
    <3>6. CASE call.name # "add"
      <4>1. call' = NoCall
        BY <3>3, <3>4, <3>6 DEF AfterJoin
      <4> QED
        BY <2>1, <3>3, <3>6, <4>1, NoCallFields DEF At, Comes, Adding
    <3> QED
      BY <3>5, <3>6
  <2>3. CASE Insert
    <3>1. PICK w \in Waves, m \in Modules : w = call.wave /\ m = call.module
      BY <2>1, <2>3 DEF Insert, BrainInv, IInv, CallInv
    <3>2. /\ modules \in [Waves -> Seq(Modules)]
          /\ modules' = [modules EXCEPT ![w] = Append(modules[w], m)]
      BY <2>3, <3>1 DEF Insert, BrainInv, BrainTypeOK, TypeOK
    <3>3. modules[w] \in Seq(Modules) /\ Len(modules[w]) \in Nat
      BY <3>2, LenIsNat
    <3>4. /\ \A v \in Waves \ {w} : modules'[v] = modules[v]
          /\ Len(modules'[w]) = Len(modules[w]) + 1
          /\ modules'[w][Len(modules[w]) + 1] = m
          /\ \A i \in 1..Len(modules[w]) : modules'[w][i] = modules[w][i]
      BY <3>2, <3>3
    <3>5. \A v \in Waves, n \in Modules :
              /\ ~Comes(v, n)'
              /\ Comes(v, n) <=> v = w /\ n = m
      BY <2>1, <2>3, <3>1, NoCallFields
      DEF Insert, Comes, Adding, BrainInv, BrainTypeOK, TypeOK, Call, IInv, CallInv
    <3> QED
      BY <1>0, <3>3, <3>4, <3>5 DEF At
  <2>4. CASE Restart
    BY <2>1, <2>4, NoCallFields DEF Restart, At, Comes, Adding
  <2>5. CASE Free
    BY <1>0, <2>5 DEF Free, Live, BrainInv, EndInv
  <2> QED
    BY <1>8, <2>2, <2>3, <2>4, <2>5 DEF Continue
<1>9. CASE Continue /\ UNCHANGED <<board, access, step, job, ordered>>
  <2>1. \A v \in Waves, m \in Modules : ~AddDynamicModule(v, m)
    BY <1>9, NoCallFields
    DEF Continue, Join, Insert, Restart, Free, AddDynamicModule, Ready, Idle
  <2> QED
    BY <1>8, <1>9, <2>1
<1>10. CASE Constructed
  <2>1. PICK w \in Waves, m \in Modules : w = job.wave /\ m = job.module
    BY <1>10 DEF Constructed, BrainInv, JobInv
  <2>2. /\ job.at = "construct" /\ job'.at = "idle" /\ modules' = modules
        /\ call = NoCall
        /\ call'.name = "add" /\ call'.at \in {"join", "insert"}
        /\ call'.wave = w /\ call'.module = m
    BY <1>10, <2>1, StageAt DEF Constructed, AddModule, Stop, Idle
  <2>3. \A v \in Waves, n \in Modules : Comes(v, n)' <=> Comes(v, n)
    BY <2>1, <2>2, NoCallFields DEF Comes, Adding
  <2> QED
    BY <1>1, <2>2, <2>3, StageAt DEF AddDynamicModule, Ready
<1>11. CASE ClearBoards \/ Exit \/ \E w \in Waves : ClearWave(w)
  BY <1>0, <1>11, StageAt DEF ClearBoards, Exit, ClearWave, Live
<1>12. CASE \E w \in Waves : LaunchWave(w) \/ PauseWave(w)
  <2>1. /\ modules' = modules /\ job.at \in {"launch", "pause"}
        /\ job'.at # "construct" /\ call = NoCall
        /\ call' = NoCall \/ call'.name = "pause"
    BY <1>12, StageAt
    DEF LaunchWave, PauseWave, Execute, Pause, Stop, Idle, Then
  <2> QED
    BY <1>2, <2>1, NoCallFields, StageAt DEF Adding, AddDynamicModule, Ready
<1>13. CASE \E w \in Waves : WaveStep(w)
  <2>1. PICK w \in Waves : WaveStep(w)
    BY <1>13
  <2>2. UNCHANGED <<modules, job, call, alive>> /\ thread[w].at # "none"
    BY <2>1 DEF WaveStep, CallAccess, InAccess, Calling, Return, CheckFlag, CallModule, EndOfPass
  <2>3. CASE \A v \in Waves, m \in Modules : ~AddDynamicModule(v, m)
    BY <1>1, <1>3, <2>2, <2>3
  <2>4. CASE \E v \in Waves, m \in Modules : AddDynamicModule(v, m)
    BY <1>5, <2>4
  <2> QED
    BY <2>3, <2>4
<1>14. CASE UNCHANGED brainVars
  <2>1. CASE \A v \in Waves, m \in Modules : ~AddDynamicModule(v, m)
    BY <1>1, <1>3, <1>14, <2>1 DEF brainVars, vars
  <2>2. CASE \E v \in Waves, m \in Modules : AddDynamicModule(v, m)
    BY <1>5, <2>2
  <2> QED
    BY <2>1, <2>2
<1> QED
  BY <1>5, <1>6, <1>7, <1>9, <1>10, <1>11, <1>12, <1>13, <1>14
  DEF BrainNext, Finish

LEMMA NotesAreKept ==
    ASSUME PlacedInv, [BrainNext]_brainVars, Live', access' = access
    PROVE  \A v \in Waves, p \in Place : \A a : Noted(v, p, a)' <=> Noted(v, p, a)
<1>1. ASSUME NEW v \in Waves, NEW m \in Modules, AddDynamicModule(v, m)
      PROVE  access[m] = <<>>
  <2>1. \A u \in Waves, i \in Nat : ~At(u, i, m)
    BY <1>1, NoCallFields, StageAt
    DEF AddDynamicModule, Ready, Idle, At, Comes, Adding, Owns
  <2> QED
    BY <2>1, LiveBack DEF PlacedInv, PlaceInv
<1>2. ASSUME NEW v \in Waves, NEW i \in Nat, NEW m \in Modules, access[m] # <<>>
      PROVE  At(v, i, m)' <=> At(v, i, m)
  BY <1>1, <1>2, PlacesAreKept
<1>3. \A m \in Modules : 1..Len(access[m]) # {} => access[m] # <<>>
  OBVIOUS
<1> QED
  BY <1>2, <1>3 DEF Noted, Place

LEMMA NoteIsAdded ==
    ASSUME PlacedInv, NEW op \in Ops, NEW v \in Waves, NEW k \in Keys,
           NEW t \in Types, NEW granted \in BOOLEAN, Register(op, v, k, t),
           Given(op, v, k, t, granted), Live',
           NEW w, NEW q, NEW a,
           w = job.wave, q = <<Len(modules[w]) + 1, Len(access[job.module]) + 1>>,
           a = [op |-> op, board |-> v, key |-> k, type |-> t,
                granted |-> granted]
    PROVE  /\ w \in Waves /\ q \in Place
           /\ \A u \in Waves, p \in Place : \A b :
                  Noted(u, p, b)' <=> Noted(u, p, b) \/ (u = w /\ p = q /\ b = a)
           /\ \A p \in Place : \A b : Noted(w, p, b) => Before(p, q)
<1>0. PICK m \in Modules : m = job.module
  BY DEF Register, PlacedInv, BrainInv, JobInv
<1>1. /\ w \in Waves /\ UNCHANGED <<modules, call, job>>
      /\ job.at = "construct" /\ call = NoCall
  BY DEF Register, PlacedInv, BrainInv, JobInv
<1>2. /\ \A u \in Waves : Len(modules[u]) \in Nat
      /\ access[m] \in Seq(Access) /\ Len(access[m]) \in Nat
      /\ access \in [Modules -> Seq(Access)]
  BY <1>0, LenOfList DEF PlacedInv, BrainInv, BrainTypeOK
<1>3. q \in Place
  BY <1>0, <1>1, <1>2 DEF Place
<1>4. access' = [access EXCEPT ![m] = Append(access[m], a)]
  BY <1>0 DEF Given
<1> HIDE DEF Given
<1>5. a \in Access
  BY DEF Access
<1>6. PICK n \in Nat : n = Len(access[m])
  BY <1>2
<1>7. /\ \A o \in Modules \ {m} : access'[o] = access[o]
      /\ Len(access'[m]) = n + 1
      /\ access'[m][n + 1] = a
      /\ \A i \in 1..n : access'[m][i] = access[m][i]
  BY <1>2, <1>4, <1>5, <1>6
<1>8. \A u \in Waves, i \in Nat, o \in Modules : At(u, i, o)' <=> At(u, i, o)
  BY <1>1 DEF At, Comes, Adding
<1>9. PICK l \in Nat : l = Len(modules[w])
  BY <1>1, <1>2
<1>10. At(w, l + 1, m)
  BY <1>0, <1>1, <1>9 DEF At, Comes
<1>11. \A u \in Waves, i \in Nat : At(u, i, m) => u = w /\ i = l + 1
  <2>1. l + 1 \in Nat
    BY <1>9
  <2> QED
    BY <1>1, <1>10, <2>1, OnePlace
<1>12. q[1] = l + 1 /\ q[2] = n + 1
  BY <1>0, <1>6, <1>9
<1>13. \A p \in Place : p[1] \in Nat /\ p[2] \in Nat /\ p = <<p[1], p[2]>>
  BY DEF Place
<1>14. ASSUME NEW u \in Waves, NEW p \in Place, NEW b
       PROVE  Noted(u, p, b)' <=> Noted(u, p, b) \/ (u = w /\ p = q /\ b = a)
  <2>1. ASSUME NEW o \in Modules \ {m}
        PROVE  p[2] \in 1..Len(access'[o]) /\ b = access'[o][p[2]]
               <=> p[2] \in 1..Len(access[o]) /\ b = access[o][p[2]]
    BY <1>7
  <2>2. p[2] \in 1..Len(access'[m]) /\ b = access'[m][p[2]]
        <=> \/ p[2] \in 1..Len(access[m]) /\ b = access[m][p[2]]
            \/ p[2] = n + 1 /\ b = a
    BY <1>6, <1>7, <1>13
  <2>3. At(u, p[1], m) /\ p[2] = n + 1 <=> u = w /\ p = q
    BY <1>10, <1>11, <1>12, <1>13, <1>3
  <2> QED
    BY <1>8, <1>13, <2>1, <2>2, <2>3 DEF Noted
<1>15. ASSUME NEW p \in Place, NEW b, Noted(w, p, b)
       PROVE  Before(p, q)
  <2>1. PICK o \in Modules : At(w, p[1], o) /\ p[2] \in 1..Len(access[o])
    BY <1>15 DEF Noted
  <2>2. CASE o = m
    <3>1. p[1] = l + 1 /\ p[2] \in 1..n
      BY <1>1, <1>6, <1>11, <1>13, <2>1, <2>2
    <3> QED
      BY <1>12, <3>1 DEF Before
  <2>3. CASE o # m
    <3>1. p[1] # l + 1
      <4>1. l + 1 \in Nat
        BY <1>9
      <4> QED
        BY <1>1, <1>10, <2>1, <2>3, <4>1, OnePlace
    <3>2. p[1] \in 1..l
      BY <1>9, <2>1, <3>1 DEF At
    <3> QED
      BY <1>12, <3>2 DEF Before
  <2> QED
    BY <2>2, <2>3
<1> QED
  BY <1>1, <1>3, <1>14, <1>15

-----------------------------------------------------------------------------

\* A thread is not in a call of a module when another step concerns it.
LEMMA CallsGoOn ==
    ASSUME PlacedInv, [BrainNext]_brainVars
    PROVE  \/ \E w \in Waves : CallAccess(w) \/ Return(w)
           \/ /\ step' = step
              /\ \A w \in Waves : thread'[w] = thread[w] \/ ~Calling(w)
<1>0. \A w \in Waves : thread[w] \in Thread /\ thread \in [Waves -> Thread]
  BY DEF PlacedInv, BrainInv, BrainTypeOK, TypeOK
<1>1. CASE thread' = thread /\ step' = step
  BY <1>1
<1>2. ASSUME NEW w \in Waves, Launch(w), step' = step
      PROVE  \A u \in Waves : thread'[u] = thread[u] \/ ~Calling(u)
  BY <1>0, <1>2 DEF Launch, Calling, Joinable
<1>3. CASE BeginCommand \/ Registering \/ Constructed \/ ClearBoards \/ Exit
  <2>1. CASE BeginCommand
    BY <1>1, <2>1
    DEF BeginCommand, CreateWave, AddDynamicModule, Test, Quit, Construct, vars
  <2>2. CASE Registering
    BY <1>1, <2>2 DEF Registering, Register
  <2>3. CASE Constructed \/ ClearBoards \/ Exit
    BY <1>1, <2>3 DEF Constructed, AddModule, ClearBoards, Exit, vars
  <2> QED
    BY <1>3, <2>1, <2>2, <2>3
<1>4. CASE Continue /\ UNCHANGED <<board, access, step, job, ordered>>
  <2>1. CASE Join
    BY <1>0, <1>4, <2>1 DEF Join, Calling
  <2>2. CASE Restart
    <3>1. call.wave \in Waves
      BY <2>2, NoCallFields DEF Restart, PlacedInv, BrainInv, IInv, CallInv
    <3> QED
      BY <1>2, <1>4, <2>2, <3>1 DEF Restart
  <2>3. CASE Insert \/ Free
    BY <1>1, <1>4, <2>3 DEF Insert, Free
  <2> QED
    BY <1>4, <2>1, <2>2, <2>3 DEF Continue
<1>5. CASE \E w \in Waves : LaunchWave(w) \/ PauseWave(w) \/ ClearWave(w)
  BY <1>1, <1>2, <1>5
  DEF LaunchWave, PauseWave, ClearWave, Execute, Pause, Destroy
<1>6. CASE \E w \in Waves : WaveStep(w)
  BY <1>0, <1>6 DEF WaveStep, CheckFlag, EndOfPass, Calling, Thread
<1>7. CASE UNCHANGED brainVars
  BY <1>1, <1>7 DEF brainVars, vars
<1> QED
  BY <1>3, <1>4, <1>5, <1>6, <1>7 DEF BrainNext, Finish

LEMMA PlaceStep ==
    ASSUME PlacedInv, [BrainNext]_brainVars
    PROVE  PlacedInv'
<1>0. BrainInv' /\ TypeOK /\ IInv /\ JobInv
  BY BrainStep DEF PlacedInv, BrainInv, BrainTypeOK
<1>1. OwnedOnce' /\ AddInv' /\ SpawnInv'
  <2>1. CASE [Next]_vars
    BY <1>0, <2>1, OwnersAreKept, SpawnStep DEF PlacedInv, PlaceInv
  <2>2. CASE UNCHANGED <<running, thread, modules, call>>
    BY <2>2
    DEF PlacedInv, PlaceInv, OwnedOnce, AddInv, Adding, SpawnInv, Owns,
        Joinable, Awaited
  <2> QED
    BY <1>0, <2>1, <2>2, StepOfWaves DEF CreatesWave, Throws
<1>2. job'.at = "construct" => \A v \in Waves : ~Owns(v, job.module)'
  <2> SUFFICES ASSUME job'.at = "construct", NEW v \in Waves
               PROVE  ~Owns(v, job.module)'
    OBVIOUS
  <2>1. CASE \E w \in Waves, m \in Modules : AddDynamicModule(w, m)
    BY <2>1 DEF AddDynamicModule, Owns, vars
  <2>2. CASE job' = job /\ modules' = modules
    BY <2>2 DEF PlacedInv, PlaceInv, Owns
  <2>3. CASE Continue /\ UNCHANGED <<board, access, step, job, ordered>>
    <3>1. call # NoCall
      BY <2>3, NoCallFields DEF Continue, Join, Insert, Restart, Free
    <3> QED
      BY <1>0, <2>3, <3>1 DEF JobInv
  <2>4. CASE BeginCommand
    BY <2>1, <2>2, <2>4, StageAt
    DEF BeginCommand, CreateWave, Construct, Test, Quit, Then
  <2>5. CASE Registering
    BY <2>2, <2>5 DEF Registering, Register
  <2>6. CASE Finish
    <3>1. CASE Constructed \/ ClearBoards \/ Exit
      BY <3>1, StageAt DEF Constructed, ClearBoards, Exit
    <3>2. CASE \E w \in Waves : LaunchWave(w) \/ PauseWave(w) \/ ClearWave(w)
      BY <3>2, StageAt DEF LaunchWave, PauseWave, ClearWave, Then
    <3> QED
      BY <2>3, <2>6, <3>1, <3>2 DEF Finish
  <2>7. CASE \E w \in Waves : WaveStep(w)
    BY <2>2, <2>7
    DEF WaveStep, CallAccess, Return, CheckFlag, CallModule, EndOfPass
  <2>8. CASE UNCHANGED brainVars
    BY <2>2, <2>8 DEF brainVars, vars
  <2> QED
    BY <2>4, <2>5, <2>6, <2>7, <2>8 DEF BrainNext
<1>3. Live' => \A m \in Modules : access'[m] # <<>> =>
                   \E v \in Waves, i \in Nat : At(v, i, m)'
  <2> SUFFICES ASSUME Live', NEW m \in Modules, access'[m] # <<>>
               PROVE  \E v \in Waves, i \in Nat : At(v, i, m)'
    OBVIOUS
  <2>1. \A v \in Waves, i \in Nat : At(v, i, m) => At(v, i, m)'
    BY PlacesAreKept
  <2>2. CASE access[m] # <<>>
    BY <2>1, <2>2, LiveBack DEF PlacedInv, PlaceInv
  <2>3. CASE access[m] = <<>>
    <3>1. Registering
      BY <2>3
      DEF BrainNext, BeginCommand, CreateWave, AddDynamicModule, Test, Quit,
          Finish, Constructed, ClearBoards, Exit, LaunchWave, PauseWave,
          ClearWave, WaveStep, CallAccess, Return, brainVars
    <3>2. /\ job.at = "construct" /\ job.wave \in Waves
          /\ m = job.module
      <4>1. PICK op \in Ops, v \in Waves, k \in Keys, t \in Types :
                Register(op, v, k, t)
        BY <3>1 DEF Registering
      <4>2. job.at = "construct" /\ access'[m] # access[m]
        BY <2>3, <4>1 DEF Register
      <4>3. \E granted \in BOOLEAN : Given(op, v, k, t, granted)
        BY <4>1, <4>2 DEF Register
      <4>4. access \in [Modules -> Seq(Access)]
        BY DEF PlacedInv, BrainInv, BrainTypeOK
      <4> QED
        BY <1>0, <4>2, <4>3, <4>4 DEF Given, JobInv
    <3>3. Len(modules[job.wave]) + 1 \in Nat
      BY <3>2, LenOfList DEF PlacedInv, BrainInv
    <3>4. At(job.wave, Len(modules[job.wave]) + 1, m)
      BY <3>2 DEF At, Comes
    <3> QED
      BY <2>1, <3>2, <3>3, <3>4
  <2> QED
    BY <2>2, <2>3
<1>4. \A w \in Waves : step'[w] # 0 => Calling(w)'
  <2> SUFFICES ASSUME NEW w \in Waves, step'[w] # 0
               PROVE  Calling(w)'
    OBVIOUS
  <2>0. /\ thread \in [Waves -> Thread] /\ step \in [Waves -> 0..MaxAccesses]
        /\ step[w] # 0 => Calling(w)
    BY DEF PlacedInv, PlaceInv, BrainInv, BrainTypeOK, TypeOK
  <2>1. CASE /\ step' = step
             /\ \A u \in Waves : thread'[u] = thread[u] \/ ~Calling(u)
    BY <2>0, <2>1 DEF Calling
  <2>2. ASSUME NEW u \in Waves, CallAccess(u)
        PROVE  Calling(w)'
    BY <2>0, <2>2 DEF CallAccess, InAccess, Calling
  <2>3. ASSUME NEW u \in Waves, Return(u)
        PROVE  Calling(w)'
    BY <2>0, <2>3 DEF Return, CallModule, Calling
  <2> QED
    BY <2>1, <2>2, <2>3, CallsGoOn
<1> QED
  BY <1>0, <1>1, <1>2, <1>3, <1>4 DEF PlacedInv, PlaceInv

-----------------------------------------------------------------------------
(***************************************************************************)
(* What the boards say of the functions noted, and what the values are.    *)
(***************************************************************************)

Provides(v, q, k, t) ==
    \E b \in Access : /\ Noted(v, q, b)
                      /\ b.op = "Provide" /\ b.granted
                      /\ b.key = k /\ b.type = t

\* From the provider at q until p, k has no other type.
Since(v, q, p, k, t) ==
    /\ Provides(v, q, k, t) /\ Before(q, p)
    /\ \A r \in Place, s \in Types :
           Provides(v, r, k, s) /\ Before(q, r) /\ Before(r, p) => s = t

EntryInv ==
    \A v \in Waves, k \in Keys :
        LET e == board[v][k] IN
        /\ e.state # "Requested"
        /\ e.recorded <=> e.state # "Absent"
        /\ e.state = "GlobalProvided" => e.value = e.type

\* A request that was granted was granted for a global provider, or for a
\* local one that is called before it.
NoteInv ==
    \A v \in Waves, p \in Place, a \in Access :
        Noted(v, p, a) /\ a.granted =>
            LET e == board[a.board][a.key] IN
            /\ a.op # "GlobalRequire" => a.board = v
            /\ a.op = "Provide" => e.state = "Provided"
            /\ a.op \in {"GlobalProvide", "GlobalRequire"} =>
                   e.state = "GlobalProvided" /\ e.type = a.type
            /\ a.op = "Require" =>
                   \/ e.state = "GlobalProvided" /\ e.type = a.type
                   \/ /\ e.state = "Provided"
                      /\ \E q \in Place : Since(v, q, p, a.key, a.type)

\* The type in typeCheck_ is that of the provider registered last.
LastInv ==
    \A v \in Waves, k \in Keys :
        board[v][k].state = "Provided" =>
            \E q \in Place :
                /\ Provides(v, q, k, board[v][k].type)
                /\ \A r \in Place, s \in Types :
                       Provides(v, r, k, s) /\ Before(q, r)
                       => s = board[v][k].type

\* The value in a board is that of the provider called last.
ValueInv ==
    \A w \in Waves, p \in Place, q \in Place, k \in Keys, t \in Types :
        thread[w].at = "loop" /\ p = Cursor(w) /\ Since(w, q, p, k, t)
        => board[w][k].value = t

ReadInv == Live => EntryInv /\ NoteInv /\ LastInv /\ ValueInv

-----------------------------------------------------------------------------

LEMMA Cursors ==
    ASSUME PlacedInv, NEW w \in Waves
    PROVE  /\ Cursor(w) \in Place
           /\ InAccess(w) => Noted(w, Cursor(w), NextAccess(w))
           /\ thread[w].at = "loop" =>
                  /\ thread[w].next \in 1..Len(modules[w]) + 1
                  /\ thread[w].last = Len(modules[w])
<1>1. /\ modules[w] \in Seq(Modules) /\ thread[w] \in Thread
      /\ Len(modules[w]) \in Nat /\ step[w] \in Nat
  BY LenOfList, BoundAssumption DEF PlacedInv, BrainInv, BrainTypeOK, TypeOK
<1>2. thread[w].next \in Nat /\ Cursor(w) \in Place
  BY <1>1 DEF Thread, Cursor, Place
<1>3. thread[w].at = "loop" => /\ thread[w].next \in 1..Len(modules[w]) + 1
                               /\ thread[w].last = Len(modules[w])
  BY <1>1 DEF PlacedInv, BrainInv, IInv, PassInv, InPass
<1>4. ASSUME InAccess(w) PROVE Noted(w, Cursor(w), NextAccess(w))
  <2>1. /\ thread[w].next \in 1..Len(modules[w])
        /\ Current(w) = modules[w][thread[w].next]
    BY <1>1, <1>2, <1>3, <1>4 DEF InAccess, Calling, Current
  <2>2. Current(w) \in Modules
    BY <1>1, <2>1
  <2>3. At(w, thread[w].next, Current(w))
    BY <2>1 DEF At
  <2>4. step[w] + 1 \in 1..Len(access[Current(w)])
    BY <1>1, <1>4, <2>2, LenOfList DEF InAccess, PlacedInv, BrainInv
  <2>5. Cursor(w)[1] = thread[w].next /\ Cursor(w)[2] = step[w] + 1
    BY DEF Cursor
  <2> QED
    BY <2>2, <2>3, <2>4, <2>5 DEF Noted, NextAccess
<1> QED
  BY <1>2, <1>3, <1>4

LEMMA SinceIsKept ==
    ASSUME NEW v \in Waves, NEW k \in Keys,
           \A q \in Place, s \in Types :
               Provides(v, q, k, s)' <=> Provides(v, q, k, s)
    PROVE  \A q \in Place, p \in Place, t \in Types :
               Since(v, q, p, k, t)' <=> Since(v, q, p, k, t)
  BY DEF Since, Before

LEMMA SameNotes ==
    ASSUME PlacedInv, [BrainNext]_brainVars, Live', access' = access
    PROVE  /\ \A v \in Waves, q \in Place : \A k, t :
                  Provides(v, q, k, t)' <=> Provides(v, q, k, t)
           /\ \A v \in Waves, q \in Place, p \in Place, k \in Keys, t \in Types :
                  Since(v, q, p, k, t)' <=> Since(v, q, p, k, t)
<1>1. \A v \in Waves, q \in Place : \A k, t :
          Provides(v, q, k, t)' <=> Provides(v, q, k, t)
  BY NotesAreKept DEF Provides
<1> QED
  BY <1>1, SinceIsKept

\* What concerns neither a value nor a place that thread w has passed.
LEMMA SameStates ==
    ASSUME PlacedInv, [BrainNext]_brainVars, Live', access' = access, ReadInv,
           \A v \in Waves, k \in Keys :
               /\ board'[v][k].state = board[v][k].state
               /\ board'[v][k].type = board[v][k].type
    PROVE  NoteInv' /\ LastInv'
<1>1. NoteInv /\ LastInv
  BY LiveBack DEF ReadInv
<1>2. NoteInv'
  <2> SUFFICES ASSUME NEW v \in Waves, NEW p \in Place, NEW a \in Access,
                      Noted(v, p, a)', a.granted
               PROVE  LET e == board'[a.board][a.key] IN
                      /\ a.op # "GlobalRequire" => a.board = v
                      /\ a.op = "Provide" => e.state = "Provided"
                      /\ a.op \in {"GlobalProvide", "GlobalRequire"} =>
                             e.state = "GlobalProvided" /\ e.type = a.type
                      /\ a.op = "Require" =>
                             \/ e.state = "GlobalProvided" /\ e.type = a.type
                             \/ /\ e.state = "Provided"
                                /\ \E q \in Place :
                                       Since(v, q, p, a.key, a.type)'
    BY DEF NoteInv
  <2>1. Noted(v, p, a) /\ a.board \in Waves /\ a.key \in Keys /\ a.type \in Types
    BY NotesAreKept DEF Access
  <2> QED
    BY <1>1, <2>1, SameNotes DEF NoteInv
<1>3. LastInv'
  BY <1>1, SameNotes DEF LastInv, Before
<1> QED
  BY <1>2, <1>3

-----------------------------------------------------------------------------
(***************************************************************************)
(* The steps.                                                              *)
(***************************************************************************)

LEMMA OtherSteps ==
    ASSUME PlacedInv, [BrainNext]_brainVars, Live'
    PROVE  \/ \E w \in Waves : CallAccess(w) \/ Return(w)
           \/ Registering
           \/ /\ UNCHANGED <<board, access, step>>
              /\ \A w \in Waves : thread'[w].at = "loop" =>
                     thread'[w] = thread[w]
                     \/ (thread'[w].next = 1 /\ thread[w].at = "check")
<1>0. thread \in [Waves -> Thread]
  BY DEF PlacedInv, BrainInv, BrainTypeOK, TypeOK
<1>1. CASE UNCHANGED <<board, access, step, thread>>
  BY <1>1
<1>2. ASSUME NEW w \in Waves, Launch(w)
      PROVE  \A u \in Waves : thread'[u].at = "loop" => thread'[u] = thread[u]
  BY <1>0, <1>2, RestingAt DEF Launch
<1>3. CASE BeginCommand
  BY <1>1, <1>3
  DEF BeginCommand, CreateWave, AddDynamicModule, Test, Quit, Construct, vars
<1>4. CASE Continue /\ UNCHANGED <<board, access, step, job, ordered>>
  <2>1. CASE Join
    BY <1>0, <1>4, <2>1, RestingAt DEF Join
  <2>2. CASE Restart
    <3>1. call.wave \in Waves
      BY <2>2, NoCallFields DEF Restart, PlacedInv, BrainInv, IInv, CallInv
    <3> QED
      BY <1>2, <1>4, <2>2, <3>1 DEF Restart
  <2>3. CASE Insert \/ Free
    BY <1>1, <1>4, <2>3 DEF Insert, Free
  <2> QED
    BY <1>4, <2>1, <2>2, <2>3 DEF Continue
<1>5. CASE Constructed \/ Exit
  BY <1>1, <1>5 DEF Constructed, AddModule, Exit, vars
<1>6. CASE ClearBoards
  BY <1>6, StageAt DEF ClearBoards, Live
<1>7. CASE \E w \in Waves : LaunchWave(w) \/ PauseWave(w) \/ ClearWave(w)
  BY <1>1, <1>2, <1>7
  DEF LaunchWave, PauseWave, ClearWave, Execute, Pause, Destroy
<1>8. ASSUME NEW w \in Waves, CheckFlag(w) \/ EndOfPass(w),
             UNCHANGED <<board, access, step, job, ordered>>
      PROVE  \A u \in Waves : thread'[u].at = "loop" =>
                 thread'[u] = thread[u]
                 \/ (thread'[u].next = 1 /\ thread[u].at = "check")
  BY <1>0, <1>8, RestingAt DEF CheckFlag, EndOfPass
<1>9. CASE \E w \in Waves : WaveStep(w)
  BY <1>8, <1>9 DEF WaveStep
<1>10. CASE UNCHANGED brainVars
  BY <1>1, <1>10 DEF brainVars, vars
<1> QED
  BY <1>3, <1>4, <1>5, <1>6, <1>7, <1>9, <1>10 DEF BrainNext, Finish

\* A pass that begins has no provider behind it.
LEMMA NothingBeforeFirst ==
    ASSUME NEW w \in Waves, NEW q \in Place, NEW p \in Place,
           p[1] = 1, p[2] = 1, PlacedInv,
           NEW k, NEW t, Provides(w, q, k, t)
    PROVE  ~Before(q, p)
<1>1. q[1] \in Nat /\ q[2] \in Nat
  BY DEF Place
<1>2. PICK m \in Modules : At(w, q[1], m) /\ q[2] \in 1..Len(access[m])
  BY DEF Provides, Noted
<1>3. Len(modules[w]) \in Nat /\ Len(access[m]) \in Nat
  BY LenOfList DEF PlacedInv, BrainInv
<1> QED
  BY <1>1, <1>2, <1>3 DEF At, Before

LEMMA ReadsOtherStep ==
    ASSUME PlacedInv, [BrainNext]_brainVars, Live', ReadInv,
           UNCHANGED <<board, access, step>>,
           \A w \in Waves : thread'[w].at = "loop" =>
               thread'[w] = thread[w]
               \/ (thread'[w].next = 1 /\ thread[w].at = "check")
    PROVE  ReadInv'
<1>1. EntryInv' /\ NoteInv' /\ LastInv'
  BY LiveBack, SameStates DEF ReadInv, EntryInv
<1>2. ValueInv'
  <2> SUFFICES ASSUME NEW w \in Waves, NEW p \in Place, NEW q \in Place,
                      NEW k \in Keys, NEW t \in Types,
                      thread'[w].at = "loop", p = Cursor(w)',
                      Since(w, q, p, k, t)'
               PROVE  board'[w][k].value = t
    BY DEF ValueInv
  <2>1. Since(w, q, p, k, t)
    BY SameNotes
  <2>2. CASE thread'[w] = thread[w]
    <3>1. p = Cursor(w)
      BY <2>2 DEF Cursor
    <3> QED
      BY <2>1, <2>2, <3>1, LiveBack DEF ReadInv, ValueInv
  <2>3. CASE thread'[w].next = 1 /\ thread[w].at = "check"
    <3>1. step[w] = 0
      BY <2>3 DEF PlacedInv, PlaceInv, Calling
    <3>2. p[1] = 1 /\ p[2] = 1
      BY <2>3, <3>1 DEF Cursor
    <3> QED
      BY <2>1, <3>2, NothingBeforeFirst DEF Since
  <2> QED
    BY <2>2, <2>3
<1> QED
  BY <1>1, <1>2 DEF ReadInv

LEMMA ReadsReturn ==
    ASSUME PlacedInv, [BrainNext]_brainVars, Live', ReadInv,
           NEW u \in Waves, Return(u)
    PROVE  ReadInv'
<1>0. /\ UNCHANGED <<board, access, modules, job, call>>
      /\ thread \in [Waves -> Thread] /\ step \in [Waves -> 0..MaxAccesses]
      /\ Calling(u) /\ ~InAccess(u)
      /\ \A w \in Waves \ {u} : step'[w] = step[w]
      /\ step'[u] = 0
  BY DEF Return, CallModule, PlacedInv, BrainInv, BrainTypeOK, TypeOK
<1>1. EntryInv' /\ NoteInv' /\ LastInv'
  BY <1>0, LiveBack, SameStates DEF ReadInv, EntryInv
<1>2. thread' = [thread EXCEPT ![u].next = @ + 1]
  BY DEF Return, CallModule, Live
<1>3. /\ \A w \in Waves \ {u} : thread'[w] = thread[w]
      /\ thread'[u].next = thread[u].next + 1
  BY <1>0, <1>2 DEF Thread
<1>4. ASSUME NEW q \in Place, NEW k, NEW t, Provides(u, q, k, t),
             NEW p \in Place, p = Cursor(u)', Before(q, p)
      PROVE  Before(q, Cursor(u))
  <2>1. PICK n \in Nat, i \in Nat : n = thread[u].next /\ i = step[u]
    BY <1>0, BoundAssumption DEF Thread
  <2>2. /\ p[1] = n + 1 /\ p[2] = 1
        /\ Cursor(u)[1] = n /\ Cursor(u)[2] = i + 1
    BY <1>0, <1>3, <1>4, <2>1 DEF Cursor
  <2>3. q[1] \in Nat /\ q[2] \in Nat
    BY DEF Place
  <2>4. PICK m \in Modules : At(u, q[1], m) /\ q[2] \in 1..Len(access[m])
    BY <1>4 DEF Provides, Noted
  <2>5. Len(access[m]) \in Nat
    BY LenOfList DEF PlacedInv, BrainInv
  <2>6. q[1] < n \/ q[1] = n
    BY <1>4, <2>2, <2>3, <2>4, <2>5 DEF Before
  <2>7. CASE q[1] = n
    <3>1. /\ n \in 1..Len(modules[u]) /\ Current(u) = modules[u][n]
          /\ modules[u] \in Seq(Modules)
      BY <1>0, <2>1, Cursors, LenOfList
      DEF Calling, Current, PlacedInv, BrainInv
    <3>2. At(u, n, Current(u)) /\ Current(u) \in Modules
      BY <3>1 DEF At
    <3>3. m = Current(u)
      BY <2>4, <2>7, <3>2, OnePlace
    <3>4. i >= Len(access[m])
      BY <1>0, <2>1, <2>5, <3>3 DEF InAccess
    <3> QED
      BY <2>2, <2>3, <2>4, <2>5, <2>7, <3>4 DEF Before
  <2> QED
    BY <2>2, <2>6, <2>7 DEF Before
<1>5. ValueInv'
  <2> SUFFICES ASSUME NEW w \in Waves, NEW p \in Place, NEW q \in Place,
                      NEW k \in Keys, NEW t \in Types,
                      thread'[w].at = "loop", p = Cursor(w)',
                      Since(w, q, p, k, t)'
               PROVE  board'[w][k].value = t
    BY DEF ValueInv
  <2>1. Since(w, q, p, k, t)
    BY <1>0, SameNotes
  <2>2. CASE w # u
    <3>1. p = Cursor(w) /\ thread[w].at = "loop"
      BY <1>0, <1>3, <2>2 DEF Cursor
    <3> QED
      BY <1>0, <2>1, <3>1, LiveBack DEF ReadInv, ValueInv
  <2>3. CASE w = u
    <3>1. PICK c \in Place : c = Cursor(u)
      BY Cursors
    <3>2. Before(q, c)
      BY <1>4, <2>1, <2>3, <3>1 DEF Since
    <3>3. Before(c, p)
      BY <1>0, <1>3, <2>3, <3>1 DEF Cursor, Before, Thread
    <3>4. Since(u, q, c, k, t)
      BY <2>1, <2>3, <3>2, <3>3, BeforeIsOrder DEF Since
    <3> QED
      BY <1>0, <2>3, <3>1, <3>4, LiveBack DEF ReadInv, ValueInv, Calling
  <2> QED
    BY <2>2, <2>3
<1> QED
  BY <1>1, <1>5 DEF ReadInv

LEMMA ReadsCall ==
    ASSUME PlacedInv, [BrainNext]_brainVars, Live', ReadInv,
           NEW u \in Waves, CallAccess(u)
    PROVE  ReadInv'
<1>1. PICK c \in Place : c = Cursor(u)
  BY Cursors
<1>2. PICK a \in Access : a = NextAccess(u)
  BY AccessTypes DEF CallAccess, PlacedInv, BrainInv
<1>3. Noted(u, c, a) /\ InAccess(u) /\ thread[u].at = "loop"
  BY <1>1, <1>2, Cursors DEF CallAccess, InAccess, Calling
<1>4. PICK v \in Waves, k \in Keys, t \in Types :
          v = a.board /\ k = a.key /\ t = a.type
  BY DEF Access
<1>5. /\ board \in [Waves -> [Keys -> Entry]]
      /\ step \in [Waves -> 0..MaxAccesses]
  BY DEF PlacedInv, BrainInv, BrainTypeOK
<1>6. /\ UNCHANGED <<access, thread>> /\ a.granted
      /\ \/ a.op \in RequireOps /\ board' = board
         \/ /\ a.op \in ProvideOps
            /\ board' = [board EXCEPT ![v][k] = Written(@, t)]
      /\ step' = [step EXCEPT ![u] = @ + 1]
  BY <1>2, <1>4 DEF CallAccess, Live
<1>7. EntryInv /\ NoteInv /\ LastInv /\ ValueInv
  BY LiveBack DEF ReadInv
<1>8. a.op \in ProvideOps => v = u
  BY <1>3, <1>4, <1>6, <1>7 DEF NoteInv, ProvideOps
<1>9. ASSUME NEW w \in Waves, NEW l \in Keys
      PROVE  /\ board'[w][l].state = board[w][l].state
             /\ board'[w][l].type = board[w][l].type
             /\ \/ board'[w][l] = board[w][l]
                \/ /\ a.op \in ProvideOps /\ w = u /\ l = k
                   /\ board'[w][l].recorded /\ board'[w][l].value = t
  <2>1. CASE board' = board
    BY <2>1
  <2>2. CASE /\ a.op \in ProvideOps
             /\ board' = [board EXCEPT ![v][k] = Written(@, t)]
    <3>1. board[w][l] \in Entry /\ board[v][k] \in Entry
      BY <1>5
    <3>2. board'[w][l] = IF w = v /\ l = k THEN Written(board[v][k], t)
                                           ELSE board[w][l]
      BY <1>5, <2>2
    <3> QED
      BY <1>8, <2>2, <3>1, <3>2 DEF Written, Entry
  <2> QED
    BY <1>6, <2>1, <2>2
<1>10. NoteInv' /\ LastInv'
  BY <1>6, <1>9, SameStates
<1>11. EntryInv'
  <2> SUFFICES ASSUME NEW w \in Waves, NEW l \in Keys
               PROVE  LET e == board'[w][l] IN
                      /\ e.state # "Requested"
                      /\ e.recorded <=> e.state # "Absent"
                      /\ e.state = "GlobalProvided" => e.value = e.type
    BY DEF EntryInv
  <2>1. CASE board'[w][l] = board[w][l]
    BY <1>7, <2>1 DEF EntryInv
  <2>2. CASE /\ a.op \in ProvideOps /\ w = u /\ l = k
             /\ board'[w][l].recorded /\ board'[w][l].value = t
    <3>1. \/ board[u][k].state = "Provided"
          \/ board[u][k].state = "GlobalProvided" /\ board[u][k].type = t
      BY <1>3, <1>4, <1>6, <1>7, <1>8, <2>2 DEF NoteInv, ProvideOps
    <3> QED
      BY <1>7, <1>9, <2>2, <3>1 DEF EntryInv
  <2> QED
    BY <1>9, <2>1, <2>2
<1>12. ValueInv'
  <2> SUFFICES ASSUME NEW w \in Waves, NEW p \in Place, NEW q \in Place,
                      NEW l \in Keys, NEW s \in Types,
                      thread'[w].at = "loop", p = Cursor(w)',
                      Since(w, q, p, l, s)'
               PROVE  board'[w][l].value = s
    BY DEF ValueInv
  <2>1. Since(w, q, p, l, s) /\ thread[w].at = "loop"
    BY <1>6, SameNotes
  <2>2. CASE w # u
    <3>1. p = Cursor(w)
      BY <1>5, <1>6, <2>2 DEF Cursor
    <3> QED
      BY <1>7, <1>9, <2>1, <2>2, <3>1 DEF ValueInv
  <2>3. CASE w = u
    <3>1. PICK n \in Nat, i \in Nat : n = thread[u].next /\ i = step[u]
      BY <1>5, BoundAssumption
      DEF PlacedInv, BrainInv, BrainTypeOK, TypeOK, Thread
    <3>2. /\ p[1] = n /\ p[2] = i + 2 /\ c[1] = n /\ c[2] = i + 1
      BY <1>1, <1>5, <1>6, <2>3, <3>1 DEF Cursor
    <3>3. Before(c, p) /\ (q = c \/ Before(q, c))
      BY <2>1, <3>2 DEF Since, Before, Place
    <3>4. CASE q = c
      <4>1. a.op = "Provide" /\ a.key = l /\ a.type = s
        BY <1>3, <2>1, <2>3, <3>4, OneNote DEF Since, Provides
      <4>2. board' = [board EXCEPT ![v][k] = Written(@, t)] /\ v = u
        BY <1>6, <1>8, <4>1 DEF RequireOps, ProvideOps
      <4> QED
        BY <1>4, <1>5, <2>3, <4>1, <4>2 DEF Written, Entry
    <3>5. CASE Before(q, c)
      <4>1. Since(u, q, c, l, s)
        BY <2>1, <2>3, <3>3, <3>5, BeforeIsOrder DEF Since
      <4>2. CASE board'[u][l] = board[u][l]
        BY <1>1, <1>7, <2>1, <2>3, <4>1, <4>2 DEF ValueInv
      <4>3. CASE a.op \in ProvideOps /\ l = k /\ board'[u][l].value = t
        <5>1. board[u][k].state = "Provided"
          <6>1. PICK b \in Access : /\ Noted(u, q, b) /\ b.op = "Provide"
                                    /\ b.granted /\ b.key = k
            BY <4>1, <4>3 DEF Since, Provides
          <6> QED
            BY <1>7, <6>1 DEF NoteInv
        <5>2. a.op = "Provide"
          BY <1>3, <1>4, <1>6, <1>7, <1>8, <4>3, <5>1
          DEF NoteInv, ProvideOps
        <5>3. Provides(u, c, k, t)
          BY <1>3, <1>4, <1>6, <5>2 DEF Provides
        <5>4. t = s
          BY <2>1, <2>3, <3>3, <3>5, <4>3, <5>3 DEF Since
        <5> QED
          BY <2>3, <4>3, <5>4
      <4> QED
        BY <1>9, <4>2, <4>3
    <3> QED
      BY <3>3, <3>4, <3>5
  <2> QED
    BY <2>2, <2>3
<1> QED
  BY <1>10, <1>11, <1>12 DEF ReadInv

-----------------------------------------------------------------------------
(***************************************************************************)
(* A registration.                                                         *)
(***************************************************************************)

\* What becomes of the key, when it was not requested before it was provided.
LEMMA KeyIsRegistered ==
    ASSUME EntryInv, BrainTypeOK, NEW op \in Ops, NEW v \in Waves,
           NEW k \in Keys, NEW t \in Types, NEW e, e = board[v][k],
           Refusal(op, e, t) = "None", ~(op \in RequireOps /\ e.state = "Absent"),
           NEW f, f = Registered(op, e, t)
    PROVE  /\ op \in RequireOps => f = e /\ e.type = t
           /\ op = "Require" => e.state \in {"Provided", "GlobalProvided"}
           /\ op = "GlobalRequire" => e.state = "GlobalProvided"
           /\ op = "Provide" => /\ e.state \in {"Absent", "Provided"}
                                /\ f.state = "Provided" /\ f.type = t
                                /\ f.recorded /\ f.value = e.value
           /\ op = "GlobalProvide" => /\ e.state = "Absent"
                                      /\ f.state = "GlobalProvided"
                                      /\ f.type = t
                                      /\ f.recorded /\ f.value = t
<1>1. /\ e \in Entry /\ e.state # "Requested"
      /\ e.recorded <=> e.state # "Absent"
  BY DEF BrainTypeOK, EntryInv
<1>2. e.state \in {"Provided", "GlobalProvided", "Absent"}
  BY <1>1 DEF Entry, TypeState
<1>3. CASE op = "Require"
  BY <1>1, <1>2, <1>3
  DEF Refusal, RequireCheck, Registered, Required, RequireOps
<1>4. CASE op = "GlobalRequire"
  BY <1>1, <1>2, <1>4
  DEF Refusal, GlobalRequireCheck, RequireCheck, Registered, Required, RequireOps
<1>5. CASE op = "Provide"
  BY <1>1, <1>2, <1>5
  DEF Refusal, ProvideCheck, Registered, Provided, Emplaced, RequireOps, Entry
<1>6. CASE op = "GlobalProvide"
  BY <1>1, <1>2, <1>6
  DEF Refusal, GlobalProvideCheck, Registered, GlobalProvided, Emplaced,
      RequireOps, Entry
<1> QED
  BY <1>3, <1>4, <1>5, <1>6 DEF Ops, RequireOps, ProvideOps

LEMMA ReadsRegister ==
    ASSUME PlacedInv, [BrainNext]_brainVars, Live', ReadInv,
           NEW op \in Ops, NEW v \in Waves, NEW k \in Keys, NEW t \in Types,
           Register(op, v, k, t)
    PROVE  ReadInv'
<1>0. EntryInv /\ NoteInv /\ LastInv /\ ValueInv
  BY LiveBack DEF ReadInv
<1>1. PICK granted \in BOOLEAN :
          /\ Given(op, v, k, t, granted)
          /\ granted => /\ Refusal(op, board[v][k], t) = "None"
                        /\ board' = [board EXCEPT ![v][k] =
                                       Registered(op, board[v][k], t)]
          /\ ~granted => board' = board
  BY DEF Register, Live
<1>2. PICK w, q, a :
          /\ w = job.wave
          /\ q = <<Len(modules[w]) + 1, Len(access[job.module]) + 1>>
          /\ a = [op |-> op, board |-> v, key |-> k, type |-> t,
                  granted |-> granted]
  OBVIOUS
<1>3. /\ w \in Waves /\ q \in Place
      /\ \A u \in Waves, p \in Place : \A b :
             Noted(u, p, b)' <=> Noted(u, p, b) \/ (u = w /\ p = q /\ b = a)
      /\ \A p \in Place : \A b : Noted(w, p, b) => Before(p, q)
  BY <1>1, <1>2, NoteIsAdded
<1>4. a \in Access
  BY <1>2 DEF Access
<1>5. /\ op # "GlobalRequire" => v = w
      /\ UNCHANGED <<thread, step, modules>>
      /\ ~(op \in RequireOps /\ board[v][k].state = "Absent")
      /\ job.at = "construct"
  BY <1>2 DEF Register, Live
<1>6. ASSUME NEW u \in Waves, NEW p \in Place, NEW l, NEW s
      PROVE  Provides(u, p, l, s)' <=>
                 \/ Provides(u, p, l, s)
                 \/ /\ u = w /\ p = q /\ l = k /\ s = t
                    /\ op = "Provide" /\ granted
  BY <1>2, <1>3, <1>4 DEF Provides
<1>7. ASSUME NEW u \in Waves, NEW l \in Keys
      PROVE  \/ /\ board'[u][l] = board[u][l]
                /\ ~(u = w /\ l = k /\ granted /\ op \in ProvideOps)
             \/ /\ u = v /\ u = w /\ l = k /\ granted /\ op = "Provide"
                /\ board[u][l].state \in {"Absent", "Provided"}
                /\ board'[u][l].state = "Provided" /\ board'[u][l].type = t
                /\ board'[u][l].recorded
                /\ board'[u][l].value = board[u][l].value
             \/ /\ u = v /\ u = w /\ l = k /\ granted /\ op = "GlobalProvide"
                /\ board[u][l].state = "Absent"
                /\ board'[u][l].state = "GlobalProvided"
                /\ board'[u][l].type = t /\ board'[u][l].recorded
                /\ board'[u][l].value = t
  <2>1. CASE ~granted \/ u # v \/ l # k
    <3>1. board \in [Waves -> [Keys -> Entry]]
      BY DEF PlacedInv, BrainInv, BrainTypeOK
    <3> QED
      BY <1>1, <1>5, <2>1, <3>1 DEF ProvideOps
  <2>2. CASE granted /\ u = v /\ l = k
    <3>1. PICK e, f : e = board[v][k] /\ f = Registered(op, e, t)
      OBVIOUS
    <3>2. board'[u][l] = f
      <4>1. board \in [Waves -> [Keys -> Entry]]
        BY DEF PlacedInv, BrainInv, BrainTypeOK
      <4> QED
        BY <1>1, <2>2, <3>1, <4>1
    <3>3. /\ op \in RequireOps => f = e
          /\ op = "Provide" => /\ e.state \in {"Absent", "Provided"}
                               /\ f.state = "Provided" /\ f.type = t
                               /\ f.recorded /\ f.value = e.value
          /\ op = "GlobalProvide" => /\ e.state = "Absent"
                                     /\ f.state = "GlobalProvided"
                                     /\ f.type = t
                                     /\ f.recorded /\ f.value = t
      BY <1>0, <1>1, <1>5, <2>2, <3>1, KeyIsRegistered DEF PlacedInv, BrainInv
    <3> QED
      BY <1>5, <2>2, <3>1, <3>2, <3>3 DEF Ops, RequireOps, ProvideOps
  <2> QED
    BY <2>1, <2>2
<1>8. EntryInv'
  <2> SUFFICES ASSUME NEW u \in Waves, NEW l \in Keys
               PROVE  LET e == board'[u][l] IN
                      /\ e.state # "Requested"
                      /\ e.recorded <=> e.state # "Absent"
                      /\ e.state = "GlobalProvided" => e.value = e.type
    BY DEF EntryInv
  <2> QED
    BY <1>0, <1>7 DEF EntryInv
\* What was noted before keeps what is before it.
<1>9. ASSUME NEW u \in Waves, NEW p \in Place, NEW b \in Access, Noted(u, p, b),
             NEW r \in Place, NEW l \in Keys, NEW s \in Types
      PROVE  Since(u, r, p, l, s)' <=> Since(u, r, p, l, s)
  <2>1. (~(u = w /\ Before(q, p)) /\ p # q) \/ u # w
    BY <1>3, <1>9, BeforeIsOrder
  <2>2. \A o \in Place : Before(o, p) /\ u = w => o # q
    BY <2>1
  <2> QED
    BY <1>6, <2>2 DEF Since, Before
<1>10. LastInv'
  <2> SUFFICES ASSUME NEW u \in Waves, NEW l \in Keys,
                      board'[u][l].state = "Provided",
                      NEW y, y = board'[u][l].type
               PROVE  \E o \in Place :
                          /\ Provides(u, o, l, y)'
                          /\ \A r \in Place, s \in Types :
                                 Provides(u, r, l, s)' /\ Before(o, r) => s = y
    BY DEF LastInv, Before
  <2>1. CASE u = w /\ l = k /\ granted /\ op = "Provide"
    <3>1. y = t
      BY <1>7, <2>1 DEF ProvideOps
    <3>2. Provides(u, q, l, t)'
      BY <1>3, <1>6, <2>1
    <3>3. ASSUME NEW r \in Place, NEW s \in Types,
                 Provides(u, r, l, s)', Before(q, r)
          PROVE  s = t
      <4>1. ~Provides(u, r, l, s)
        BY <1>3, <2>1, <3>3, BeforeIsOrder DEF Provides
      <4> QED
        BY <1>6, <3>3, <4>1
    <3> QED
      BY <1>3, <3>1, <3>2, <3>3
  <2>2. CASE ~(u = w /\ l = k /\ granted /\ op = "Provide")
    <3>1. board'[u][l] = board[u][l]
      BY <1>7, <2>2
    <3>2. \A r \in Place : \A s : Provides(u, r, l, s)' <=> Provides(u, r, l, s)
      BY <1>6, <2>2
    <3> QED
      BY <1>0, <3>1, <3>2 DEF LastInv
  <2> QED
    BY <2>1, <2>2
<1>11. NoteInv'
  <2> SUFFICES ASSUME NEW u \in Waves, NEW p \in Place, NEW b \in Access,
                      Noted(u, p, b)', b.granted
               PROVE  LET e == board'[b.board][b.key] IN
                      /\ b.op # "GlobalRequire" => b.board = u
                      /\ b.op = "Provide" => e.state = "Provided"
                      /\ b.op \in {"GlobalProvide", "GlobalRequire"} =>
                             e.state = "GlobalProvided" /\ e.type = b.type
                      /\ b.op = "Require" =>
                             \/ e.state = "GlobalProvided" /\ e.type = b.type
                             \/ /\ e.state = "Provided"
                                /\ \E r \in Place :
                                       Since(u, r, p, b.key, b.type)'
    BY DEF NoteInv
  <2>0. /\ b.board \in Waves /\ b.key \in Keys /\ b.type \in Types
        /\ b.op \in Ops
    BY DEF Access
  <2>1. CASE Noted(u, p, b)
    <3>1. PICK d \in Waves, l \in Keys, s \in Types :
              d = b.board /\ l = b.key /\ s = b.type
      BY <2>0
    <3>2. /\ b.op # "GlobalRequire" => d = u
          /\ b.op = "Provide" => board[d][l].state = "Provided"
          /\ b.op \in {"GlobalProvide", "GlobalRequire"} =>
                 board[d][l].state = "GlobalProvided" /\ board[d][l].type = s
          /\ b.op = "Require" =>
                 \/ board[d][l].state = "GlobalProvided" /\ board[d][l].type = s
                 \/ /\ board[d][l].state = "Provided"
                    /\ \E r \in Place : Since(u, r, p, l, s)
      BY <1>0, <2>1, <3>1 DEF NoteInv
    <3>3. /\ board[d][l].state = "GlobalProvided" => board'[d][l] = board[d][l]
          /\ board[d][l].state = "Provided" => board'[d][l].state = "Provided"
      BY <1>7
    <3>4. \A r \in Place : Since(u, r, p, l, s)' <=> Since(u, r, p, l, s)
      BY <1>9, <2>1
    <3> QED
      BY <3>1, <3>2, <3>3, <3>4
  <2>2. CASE u = w /\ p = q /\ b = a
    <3>1. /\ b.op = op /\ b.board = v /\ b.key = k /\ b.type = t /\ granted
      BY <1>2, <2>2
    <3>2. PICK e, f : e = board[v][k] /\ f = Registered(op, e, t)
      OBVIOUS
    <3>3. board'[v][k] = f
      <4>1. board \in [Waves -> [Keys -> Entry]]
        BY DEF PlacedInv, BrainInv, BrainTypeOK
      <4> QED
        BY <1>1, <3>1, <3>2, <4>1
    <3>4. /\ op \in RequireOps => f = e /\ e.type = t
          /\ op = "Require" => e.state \in {"Provided", "GlobalProvided"}
          /\ op = "GlobalRequire" => e.state = "GlobalProvided"
          /\ op = "Provide" => f.state = "Provided"
          /\ op = "GlobalProvide" => f.state = "GlobalProvided" /\ f.type = t
      BY <1>0, <1>1, <1>5, <3>1, <3>2, KeyIsRegistered DEF PlacedInv, BrainInv
    <3>5. ASSUME op = "Require", e.state = "Provided"
          PROVE  \E r \in Place : Since(w, r, q, k, t)'
      <4>1. v = w /\ e.type = t
        BY <1>5, <3>4, <3>5 DEF RequireOps
      <4>2. PICK r \in Place :
                /\ Provides(w, r, k, t)
                /\ \A o \in Place, s \in Types :
                       Provides(w, o, k, s) /\ Before(r, o) => s = t
        BY <1>0, <1>3, <3>2, <3>5, <4>1 DEF LastInv
      <4>3. Before(r, q)
        BY <1>3, <4>2 DEF Provides
      <4>4. \A o \in Place : \A s : Provides(w, o, k, s)' <=> Provides(w, o, k, s)
        BY <1>3, <1>6, <3>5
      <4> QED
        BY <4>2, <4>3, <4>4 DEF Since, Before
    <3> QED
      BY <1>5, <2>2, <3>1, <3>2, <3>3, <3>4, <3>5 DEF RequireOps
  <2> QED
    BY <1>3, <2>1, <2>2
<1>12. ValueInv'
  <2> SUFFICES ASSUME NEW u \in Waves, NEW p \in Place, NEW r \in Place,
                      NEW l \in Keys, NEW s \in Types,
                      thread'[u].at = "loop", p = Cursor(u)',
                      Since(u, r, p, l, s)'
               PROVE  board'[u][l].value = s
    BY DEF ValueInv
  <2>1. thread[u].at = "loop" /\ p = Cursor(u)
    BY <1>5 DEF Cursor
  <2>2. ~(u = w /\ Before(q, p))
    <3>1. PICK i \in Nat, n \in Nat, z \in Nat :
              /\ n = thread[u].next /\ i = step[u] /\ z = Len(modules[u])
      BY BoundAssumption, LenOfList
      DEF PlacedInv, BrainInv, BrainTypeOK, TypeOK, Thread
    <3>2. n \in 1..z + 1 /\ (n = z + 1 => i = 0)
      BY <2>1, <3>1, Cursors DEF PlacedInv, PlaceInv, Calling
    <3>3. p[1] = n /\ p[2] = i + 1
      BY <2>1, <3>1 DEF Cursor
    <3>4. u = w => q[1] = z + 1 /\ q[2] \in Nat \ {0}
      <4>1. job.module \in Modules
        BY <1>5 DEF PlacedInv, BrainInv, JobInv
      <4>2. Len(access[job.module]) \in Nat
        BY <4>1, LenOfList DEF PlacedInv, BrainInv
      <4> QED
        BY <1>2, <3>1, <4>2
    <3> QED
      BY <3>2, <3>3, <3>4 DEF Before
  <2>3. Since(u, r, p, l, s)
    <3>1. \A o \in Place : \A x : Before(o, p) =>
              (Provides(u, o, l, x)' <=> Provides(u, o, l, x))
      BY <1>6, <2>2
    <3> QED
      BY <3>1 DEF Since, Before
  <2>4. board[u][l].value = s
    BY <1>0, <2>1, <2>3 DEF ValueInv
  <2>5. CASE board[u][l].state = "Absent"
    <3>1. PICK b \in Access : /\ Noted(u, r, b) /\ b.op = "Provide"
                              /\ b.granted /\ b.key = l
      BY <2>3 DEF Since, Provides
    <3> QED
      BY <1>0, <2>5, <3>1 DEF NoteInv
  <2> QED
    BY <1>7, <2>4, <2>5
<1> QED
  BY <1>8, <1>10, <1>11, <1>12 DEF ReadInv

-----------------------------------------------------------------------------

LEMMA ReadStep ==
    ASSUME PlacedInv, ReadInv, [BrainNext]_brainVars
    PROVE  ReadInv'
<1> SUFFICES ASSUME Live' PROVE ReadInv'
  BY DEF ReadInv
<1> QED
  BY OtherSteps, ReadsOtherStep, ReadsReturn, ReadsCall, ReadsRegister
  DEF Registering

LEMMA ReadFindsValue ==
    ASSUME PlacedInv, ReadInv, ordered, NEW w \in Waves, InAccess(w),
           fate = "up", NextAccess(w).granted, NextAccess(w).op \in RequireOps
    PROVE  LET a == NextAccess(w) IN
           ReadResult(board[a.board][a.key], a.type) = "value"
<1>1. Joinable(w) /\ NextAccess(w) \in Access
  BY AccessTypes DEF PlacedInv, BrainInv
<1>2. EntryInv /\ NoteInv /\ ValueInv
  BY <1>1 DEF ReadInv, Live, PlacedInv, BrainInv, EndInv
<1>3. PICK a \in Access, c \in Place : a = NextAccess(w) /\ c = Cursor(w)
  BY <1>1, Cursors
<1>4. PICK v \in Waves, k \in Keys, t \in Types :
          v = a.board /\ k = a.key /\ t = a.type
  BY DEF Access
<1>5. Noted(w, c, a) /\ thread[w].at = "loop"
  BY <1>3, Cursors DEF InAccess, Calling
<1>6. CASE board[v][k].state = "GlobalProvided" /\ board[v][k].type = t
  BY <1>2, <1>3, <1>4, <1>6 DEF EntryInv, ReadResult
<1>7. CASE /\ v = w /\ board[v][k].state = "Provided"
           /\ \E q \in Place : Since(w, q, c, k, t)
  <2>1. board[v][k].value = t
    BY <1>2, <1>3, <1>5, <1>7 DEF ValueInv
  <2> QED
    BY <1>2, <1>3, <1>4, <1>7, <2>1 DEF EntryInv, ReadResult
<1> QED
  BY <1>2, <1>3, <1>4, <1>5, <1>6, <1>7 DEF NoteInv, RequireOps

LEMMA PlaceStart == BrainInit => PlacedInv /\ ReadInv /\ OrderedReadsSucceed
<1> SUFFICES ASSUME BrainInit PROVE PlacedInv /\ ReadInv /\ OrderedReadsSucceed
  OBVIOUS
<1>1. /\ \A w \in Waves : modules[w] = <<>> /\ thread[w].at = "none"
      /\ \A m \in Modules : access[m] = <<>>
      /\ \A v \in Waves, k \in Keys : board[v][k] = NoEntry
      /\ \A w \in Waves : step[w] = 0 /\ ~running[w]
      /\ job.at = "idle" /\ fate = "up"
      /\ call.name = "none" /\ call.at = "idle"
  BY StageAt, NoCallFields, RestingAt DEF BrainInit, Init, NewBoard
<1>2. PlaceInv
  <2>1. OwnedOnce
    BY <1>1 DEF OwnedOnce
  <2>2. AddInv /\ SpawnInv
    BY <1>1 DEF AddInv, Adding, SpawnInv, Awaited
  <2> QED
    BY <1>1, <2>1, <2>2 DEF PlaceInv
<1>3. \A v \in Waves, p \in Place : \A a : ~Noted(v, p, a)
  BY <1>1 DEF Noted, Place
<1>4. EntryInv /\ LastInv
  BY <1>1 DEF EntryInv, LastInv, NoEntry
<1>5. NoteInv /\ ValueInv
  BY <1>1, <1>3 DEF NoteInv, ValueInv
<1> QED
  BY <1>1, <1>2, <1>4, <1>5, BrainStart
  DEF PlacedInv, ReadInv, OrderedReadsSucceed

\* No module requested a key before it was provided: then a value of the right
\* type is found by each call of each function that was granted, from the
\* first pass on, and however registrations and passes interleave.
THEOREM ReadsSucceedInOrder == BrainSpec => []OrderedReadsSucceed
<1> DEFINE Inv == PlacedInv /\ ReadInv /\ OrderedReadsSucceed
<1>1. Inv /\ [BrainNext]_brainVars => Inv'
  <2> SUFFICES ASSUME Inv, [BrainNext]_brainVars
               PROVE  OrderedReadsSucceed'
    BY PlaceStep, ReadStep
  <2>1. CASE \E w \in Waves : CallAccess(w)
    BY <2>1, ReadFindsValue DEF CallAccess, OrderedReadsSucceed
  <2>2. CASE fate' # "misread" \/ UNCHANGED <<fate, ordered>>
    BY <2>2 DEF OrderedReadsSucceed
  <2>3. CASE BeginCommand \/ Registering \/ UNCHANGED brainVars
    <3>1. CASE BeginCommand
      BY <2>2, <3>1
      DEF BeginCommand, CreateWave, AddDynamicModule, Test, Quit, Construct, vars
    <3>2. CASE Registering
      <4>1. PICK op \in Ops, v \in Waves, k \in Keys, t \in Types :
                Register(op, v, k, t)
        BY <3>2 DEF Registering
      <4>2. fate' \in {"up", "uncaught", "undefined"}
        BY <4>1 DEF Register
      <4> QED
        BY <2>2, <4>2
    <3> QED
      BY <2>2, <2>3, <3>1, <3>2 DEF brainVars, vars
  <2>4. CASE Finish
    BY <2>2, <2>4
    DEF Finish, Continue, Join, Insert, Restart, Free, Launch, Constructed,
        AddModule, ClearBoards, Exit, LaunchWave, PauseWave, ClearWave,
        Execute, Pause, Destroy, vars
  <2>5. ASSUME NEW w \in Waves, Return(w) \/ CheckFlag(w) \/ EndOfPass(w),
               ordered' = ordered
        PROVE  OrderedReadsSucceed'
    BY <2>2, <2>5 DEF Return, CallModule, CheckFlag, EndOfPass
  <2>6. CASE \E w \in Waves : WaveStep(w)
    BY <2>1, <2>5, <2>6 DEF WaveStep, Return
  <2> QED
    BY <2>3, <2>4, <2>6 DEF BrainNext
<1> QED
  BY <1>1, PlaceStart, PTL DEF BrainSpec

=============================================================================
