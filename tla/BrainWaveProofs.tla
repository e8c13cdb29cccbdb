-------------------------- MODULE BrainWaveProofs ---------------------------
(***************************************************************************)
(* Proofs about BrainWave, for any number of waves and modules, any width  *)
(* of size_t, and whichever modules and thread creations fail.             *)
(***************************************************************************)
EXTENDS BrainWave, TLAPS

\* These stand for one expression each and are expanded everywhere.
USE DEF Cleared, WaitOr, IndexIn, With, Begun, PassOver

-----------------------------------------------------------------------------
(***************************************************************************)
(* The inductive invariant, in parts.                                      *)
(***************************************************************************)

\* The call in progress is one of those the functions make.
CallInv ==
    /\ call # NoCall => /\ call.at # "idle" /\ call.name # "none"
                        /\ call.wave \in Waves /\ alive[call.wave]
    /\ call.at = "insert" => call.name = "add"
    /\ call.name = "add" => call.module \in Modules

(***************************************************************************)
(* The handshake between the flag and the thread.  A thread outlives the   *)
(* flag only while the controller waits for it in join(), and the object   *)
(* outlives the thread.                                                    *)
(***************************************************************************)
HandshakeInv ==
    \A w \in Waves :
        /\ Joinable(w) => alive[w] /\ (running[w] \/ Awaited(w))
        /\ thread[w].at = "ended" => ~running[w]
        /\ call # NoCall /\ call.wave = w => ~running[w]
        /\ call.at \in {"insert", "restart", "free"} /\ call.wave = w
               => ~Joinable(w)

\* The iterators of a pass bound the list as it is.
PassInv ==
    \A w \in Waves : InPass(w) =>
        /\ thread[w].last = Len(modules[w])
        /\ thread[w].next \in 1..(thread[w].last + 1)

IInv == /\ CallInv
        /\ HandshakeInv
        /\ PassInv
        /\ NoThreadAbandoned

-----------------------------------------------------------------------------
(***************************************************************************)
(* Type correctness.                                                       *)
(***************************************************************************)
LEMMA LenIsNat == ASSUME NEW S, NEW s \in Seq(S) PROVE Len(s) \in Nat
  OBVIOUS

LEMMA AppendIsSeq ==
    ASSUME NEW S, NEW s \in Seq(S), NEW e \in S
    PROVE  Append(s, e) \in Seq(S) /\ Len(Append(s, e)) = Len(s) + 1
  OBVIOUS

LEMMA LaunchTypes ==
    ASSUME TypeOK, NEW w \in Waves, Launch(w)
    PROVE  /\ running' \in [Waves -> BOOLEAN]
           /\ thread' \in [Waves -> Thread]
           /\ fate' \in Fates
  <1>1. Resting("check") \in Thread
    BY DEF Resting, Thread
  <1> QED BY <1>1 DEF Launch, TypeOK, Fates

LEMMA StopTypes ==
    ASSUME TypeOK, NEW w \in Waves, NEW m \in Modules \cup {Nil},
           NEW name \in {"pause", "add", "destroy"},
           NEW then \in {"idle", "insert", "free"},
           Stop(w, name, m, then)
    PROVE  running' \in [Waves -> BOOLEAN] /\ call' \in Call
  <1>1. running[w] \in BOOLEAN
    BY DEF TypeOK
  <1>2. CASE running[w]
    BY <1>1, <1>2 DEF Stop, TypeOK, Call
  <1>3. CASE ~running[w]
    BY <1>1, <1>3 DEF Stop, TypeOK, Call
  <1> QED BY <1>2, <1>3

LEMMA NoCallIsCall == NoCall \in Call
  BY DEF NoCall, Call

LEMMA InsertTypes ==
    ASSUME TypeOK, CallInv, Insert
    PROVE  TypeOK'
  <1> DEFINE w == call.wave
             m == call.module
             i == (Len(modules[w]) - 1) % (MaxIndex + 1)
  <1>1. w \in Waves /\ m \in Modules
    BY DEF Insert, CallInv, NoCall
  <1>2. i \in 0..MaxIndex
    <2>1. Len(modules[w]) \in Nat
      <3>1. modules[w] \in Seq(Modules)
        BY <1>1 DEF TypeOK
      <3> QED BY <3>1, LenIsNat
    <2>2. ASSUME NEW n \in Nat, NEW b \in Nat \ {0}
          PROVE  (n - 1) % (b + 1) \in 0..b
      BY SMT
    <2> HIDE DEF w
    <2> QED BY <2>1, <2>2, WidthAssumption
  <1>3. NameOf[m] \in Names
    BY <1>1, NameAssumption
  <1>4. indices' \in [Waves -> [Names -> 0..MaxIndex \cup {Nil}]]
    <2> HIDE DEF i
    <2>1. indices' = [indices EXCEPT ![w][NameOf[m]] = i]
      BY DEF Insert, i
    <2> QED BY <1>1, <1>2, <1>3, <2>1 DEF TypeOK
  <1>5. modules' \in [Waves -> Seq(Modules)]
    BY <1>1, AppendIsSeq DEF Insert, TypeOK
  <1>6. call' \in Call
    BY NoCallIsCall DEF Insert, TypeOK, Call
  <1> QED BY <1>4, <1>5, <1>6 DEF Insert, TypeOK

LEMMA InitTypes == Init => TypeOK
  BY NoCallIsCall DEF Init, TypeOK, Resting, Thread, NoIndices, Fates

LEMMA NextTypes ==
    ASSUME TypeOK, CallInv, [Next]_vars
    PROVE  TypeOK'
  <1>1. ASSUME NEW w \in Waves, Construct(w)
        PROVE  TypeOK'
    BY <1>1 DEF Construct, TypeOK
  <1>2. ASSUME NEW w \in Waves, Execute(w)
        PROVE  TypeOK'
    BY <1>2, LaunchTypes DEF Execute, TypeOK
  <1>3. ASSUME NEW w \in Waves, Pause(w)
        PROVE  TypeOK'
    <2>1. CASE ~running[w] /\ UNCHANGED <<running, call>>
      BY <1>3, <2>1 DEF Pause, TypeOK
    <2>2. CASE Stop(w, "pause", Nil, "idle")
      BY <1>3, <2>2, StopTypes DEF Pause, TypeOK
    <2> QED BY <1>3, <2>1, <2>2 DEF Pause
  <1>4. ASSUME NEW w \in Waves, Destroy(w)
        PROVE  TypeOK'
    BY <1>4, StopTypes DEF Destroy, TypeOK
  <1>5. ASSUME NEW w \in Waves, NEW m \in Modules, AddModule(w, m)
        PROVE  TypeOK'
    BY <1>5, StopTypes DEF AddModule, TypeOK
  <1>6. CASE Join
    <2>1. Resting("none") \in Thread
      BY DEF Resting, Thread
    <2>2. AfterJoin \in Call
      BY NoCallIsCall DEF AfterJoin, TypeOK, Call
    <2> QED BY <1>6, <2>1, <2>2, NoCallIsCall DEF Join, TypeOK, Fates
  <1>7. CASE Insert
    BY <1>7, InsertTypes
  <1>8. CASE Restart
    <2>1. call.wave \in Waves
      BY <1>8 DEF Restart, CallInv, NoCall
    <2> QED BY <1>8, <2>1, LaunchTypes, NoCallIsCall DEF Restart, TypeOK
  <1>9. CASE Free
    <2>1. NoIndices \in [Names -> 0..MaxIndex \cup {Nil}]
      BY DEF NoIndices
    <2>2. << >> \in Seq(Modules)
      OBVIOUS
    <2>3. ASSUME ~Joinable(call.wave)
          PROVE  TypeOK'
      <3>1. alive' \in [Waves -> BOOLEAN] /\ modules' \in [Waves -> Seq(Modules)]
        BY <1>9, <2>2, <2>3 DEF Free, TypeOK
      <3>2. indices' \in [Waves -> [Names -> 0..MaxIndex \cup {Nil}]]
        BY <1>9, <2>1, <2>3 DEF Free, TypeOK
      <3> QED BY <1>9, <2>3, <3>1, <3>2, NoCallIsCall DEF Free, TypeOK
    <2> QED BY <1>9, <2>3 DEF Free, TypeOK, Fates
  <1>10. ASSUME NEW w \in Waves, CheckFlag(w)
         PROVE  TypeOK'
    <2>1. Resting("ended") \in Thread
      BY DEF Resting, Thread
    <2>2. [at |-> "loop", next |-> 1, last |-> Len(modules[w])] \in Thread
      <3>1. modules[w] \in Seq(Modules)
        BY DEF TypeOK
      <3>2. Len(modules[w]) \in Nat
        BY <3>1, LenIsNat
      <3> QED BY <3>2 DEF Thread
    <2> QED BY <1>10, <2>1, <2>2 DEF CheckFlag, TypeOK
  <1>11. ASSUME NEW w \in Waves, CallModule(w)
         PROVE  TypeOK'
    <2>1. [thread[w] EXCEPT !.next = @ + 1] \in Thread
      <3>1. thread[w] \in Thread
        BY DEF TypeOK
      <3> QED BY <3>1 DEF Thread
    <2>2. thread' \in [Waves -> Thread]
      BY <1>11, <2>1 DEF CallModule, TypeOK
    <2> QED BY <1>11, <2>2 DEF CallModule, TypeOK, Fates
  <1>12. ASSUME NEW w \in Waves, EndOfPass(w)
         PROVE  TypeOK'
    <2>1. Resting("check") \in Thread
      BY DEF Resting, Thread
    <2> QED BY <1>12, <2>1 DEF EndOfPass, TypeOK
  <1>13. CASE UNCHANGED vars
    BY <1>13 DEF vars, TypeOK
  <1> QED BY <1>1, <1>2, <1>3, <1>4, <1>5, <1>6, <1>7, <1>8, <1>9, <1>10,
             <1>11, <1>12, <1>13 DEF Next, Begin, Continue, ThreadStep

-----------------------------------------------------------------------------
(***************************************************************************)
(* The rest of the inductive invariant.                                    *)
(***************************************************************************)
LEMMA NoCallFields ==
    NoCall.at = "idle" /\ NoCall.name = "none" /\ NoCall.wave = Nil
  BY DEF NoCall

LEMMA RestingAt == ASSUME NEW a PROVE Resting(a).at = a
  BY DEF Resting

LEMMA InitInv == Init => IInv
  BY NoCallFields, RestingAt
      DEF Init, IInv, CallInv, HandshakeInv, PassInv, NoThreadAbandoned, Joinable, InPass

\* What execute() does to a wave no call is waiting for.
LEMMA LaunchEffect ==
    ASSUME TypeOK, IInv, NEW w \in Waves, Launch(w), ~Awaited(w)
    PROVE  /\ fate' = fate
           /\ running'[w] = TRUE
           /\ \A v \in Waves : v # w => /\ running'[v] = running[v]
                                       /\ thread'[v] = thread[v]
           /\ \/ thread'[w] = thread[w] /\ thread[w].at # "ended"
              \/ thread'[w].at = "check"
  <1>1. /\ Joinable(w) => running[w]
        /\ thread[w].at = "ended" => ~running[w]
    BY DEF IInv, HandshakeInv
  <1>2. CASE running[w]
    BY <1>1, <1>2 DEF Launch, TypeOK
  <1>3. CASE ~running[w]
    BY <1>1, <1>3, RestingAt DEF Launch, TypeOK, Joinable
  <1> QED BY <1>2, <1>3

\* So it keeps the invariant, as execute() and as the end of addModule().
LEMMA LaunchKeepsInv ==
    ASSUME TypeOK, IInv, NEW w \in Waves, Launch(w), ~Awaited(w),
           alive[w], UNCHANGED <<alive, modules>>, call' = NoCall,
           \A v \in Waves : ~Awaited(v)
    PROVE  IInv'
  <1>1. /\ fate' = fate
        /\ running'[w] = TRUE
        /\ \A v \in Waves : v # w => /\ running'[v] = running[v]
                                    /\ thread'[v] = thread[v]
        /\ \/ thread'[w] = thread[w] /\ thread[w].at # "ended"
           \/ thread'[w].at = "check"
    BY LaunchEffect
  <1>2. CallInv'
    BY NoCallFields DEF CallInv
  <1>3. HandshakeInv'
    BY <1>1, NoCallFields DEF HandshakeInv, IInv, Joinable, Awaited
  <1>4. PassInv'
    BY <1>1 DEF PassInv, IInv, InPass
  <1>5. NoThreadAbandoned'
    BY <1>1 DEF NoThreadAbandoned, IInv
  <1> QED BY <1>2, <1>3, <1>4, <1>5 DEF IInv

\* The beginning of pause(), of addModule() and of the destructor.
LEMMA StopKeepsInv ==
    ASSUME TypeOK, IInv, NEW w \in Waves, NEW m \in Modules \cup {Nil},
           NEW name, NEW then, Idle, Stop(w, name, m, then),
           alive[w], UNCHANGED <<alive, thread, modules, fate>>,
           \/ name = "pause" /\ running[w]
           \/ name = "add" /\ then = "insert" /\ m \in Modules
           \/ name = "destroy" /\ then = "free"
    PROVE  IInv'
  <1>1. running[w] \in BOOLEAN /\ call = NoCall
    BY DEF TypeOK, Idle
  <1>2. CASE running[w]
    <2>1. /\ call' = [name |-> name, wave |-> w, module |-> m,
                      resume |-> TRUE, at |-> "join"]
          /\ running' = [running EXCEPT ![w] = FALSE]
      BY <1>1, <1>2 DEF Stop
    <2>2. CallInv'
      BY <2>1, NoCallFields DEF CallInv
    <2>3. HandshakeInv'
      BY <1>1, <2>1, NoCallFields
          DEF HandshakeInv, IInv, TypeOK, Joinable, Awaited
    <2> QED BY <2>2, <2>3 DEF IInv, PassInv, InPass, NoThreadAbandoned
  <1>3. CASE ~running[w]
    <2>1. /\ call' = [name |-> name, wave |-> w, module |-> m,
                      resume |-> FALSE, at |-> then]
          /\ running' = running
          /\ then \in {"insert", "free"}
      BY <1>1, <1>3 DEF Stop, TypeOK
    <2>2. CallInv'
      BY <2>1, <1>3, NoCallFields DEF CallInv
    <2>3. HandshakeInv'
      BY <1>1, <1>3, <2>1, NoCallFields
          DEF HandshakeInv, IInv, TypeOK, Joinable, Awaited
    <2> QED BY <2>2, <2>3 DEF IInv, PassInv, InPass, NoThreadAbandoned
  <1> QED BY <1>2, <1>3

LEMMA JoinKeepsInv ==
    ASSUME TypeOK, IInv, Join, NEW w \in Waves, w = call.wave
    PROVE  IInv'
  <1>1. call # NoCall /\ call.at = "join"
    BY NoCallFields DEF Join
  <1>2. Awaited(w) /\ ~running[w] /\ alive[w] /\ call.name # "none"
    BY <1>1 DEF IInv, CallInv, HandshakeInv, Awaited
  <1>3. UNCHANGED <<alive, running, modules>> /\ fate' # "overwritten"
    BY DEF Join, IInv, NoThreadAbandoned
  <1>4. \/ thread' = [thread EXCEPT ![w] = Resting("none")] /\ call' = AfterJoin
        \/ thread' = thread /\ ~Joinable(w) /\ call' \in {NoCall, call}
    BY DEF Join
  <1>5. /\ \A v \in Waves : v # w => thread'[v] = thread[v]
        /\ thread'[w].at = "none"
    BY <1>4, RestingAt DEF TypeOK, Joinable
  <1>6. \/ call' \in {NoCall, call}
        \/ call' = [call EXCEPT !.at = "insert"] /\ call.name = "add"
        \/ call' = [call EXCEPT !.at = "free"]
    BY <1>4 DEF AfterJoin
  <1>7. CallInv'
    <2>1. CallInv /\ call \in Call
      BY DEF IInv, TypeOK
    <2> QED BY <1>1, <1>2, <1>3, <1>6, <2>1, NoCallFields DEF CallInv, Call
  <1>8. HandshakeInv'
    <2>1. call'.wave = w \/ call' = NoCall
      BY <1>6 DEF TypeOK, Call
    <2> QED BY <1>1, <1>2, <1>3, <1>5, <2>1, NoCallFields
            DEF IInv, HandshakeInv, Joinable, Awaited
  <1>9. PassInv'
    BY <1>3, <1>5 DEF IInv, PassInv, InPass
  <1>10. NoThreadAbandoned'
    BY <1>3 DEF NoThreadAbandoned
  <1> QED BY <1>7, <1>8, <1>9, <1>10 DEF IInv

LEMMA InsertKeepsInv == ASSUME TypeOK, IInv, Insert PROVE IInv'
  <1>1. call.wave \in Waves /\ ~Joinable(call.wave) /\ ~running[call.wave]
    BY NoCallFields DEF Insert, IInv, CallInv, HandshakeInv
  <1>2. /\ running' = running /\ thread' = thread /\ fate' = fate
        /\ call' \in {NoCall, [call EXCEPT !.at = "restart"]}
        /\ \A v \in Waves : v # call.wave => modules'[v] = modules[v]
    BY DEF Insert, TypeOK
  <1>3. CallInv'
    BY <1>1, <1>2, NoCallFields DEF Insert, IInv, CallInv, TypeOK, Call
  <1>4. HandshakeInv'
    BY <1>1, <1>2, NoCallFields
        DEF Insert, IInv, HandshakeInv, TypeOK, Call, Joinable, Awaited
  <1>5. PassInv'
    BY <1>1, <1>2 DEF IInv, PassInv, InPass, Joinable
  <1>6. NoThreadAbandoned'
    BY <1>2 DEF IInv, NoThreadAbandoned
  <1> QED BY <1>3, <1>4, <1>5, <1>6 DEF IInv

LEMMA FreeKeepsInv == ASSUME TypeOK, IInv, Free PROVE IInv'
  <1>1. call.wave \in Waves /\ ~Joinable(call.wave)
    BY NoCallFields DEF Free, IInv, CallInv, HandshakeInv
  <1>2. /\ running' = running /\ thread' = thread /\ fate' = fate
        /\ call' = NoCall /\ call.at = "free"
        /\ \A v \in Waves : v # call.wave => /\ modules'[v] = modules[v]
                                            /\ alive'[v] = alive[v]
    BY <1>1 DEF Free, TypeOK
  <1>3. CallInv'
    BY <1>2, NoCallFields DEF CallInv
  <1>4. HandshakeInv'
    BY <1>1, <1>2, NoCallFields
        DEF IInv, HandshakeInv, TypeOK, Joinable, Awaited
  <1>5. PassInv'
    BY <1>1, <1>2 DEF IInv, PassInv, InPass, Joinable
  <1>6. NoThreadAbandoned'
    BY <1>2 DEF IInv, NoThreadAbandoned
  <1> QED BY <1>3, <1>4, <1>5, <1>6 DEF IInv

\* The thread's own steps touch neither the flag, nor a list, nor the call.
LEMMA ThreadStepKeepsInv ==
    ASSUME TypeOK, IInv, NEW w \in Waves, ThreadStep(w)
    PROVE  IInv'
  <1>1. UNCHANGED <<alive, running, modules, call>>
    BY DEF ThreadStep, CheckFlag, CallModule, EndOfPass
  <1>2. Len(modules[w]) \in Nat
    <2>1. modules[w] \in Seq(Modules)
      BY DEF TypeOK
    <2> QED BY <2>1, LenIsNat
  <1>3. /\ \A v \in Waves : v # w => thread'[v] = thread[v]
        /\ thread[w].at \in {"check", "loop"}
        /\ thread'[w].at \in {"check", "loop", "ended"}
        /\ thread'[w].at = "ended" => ~running[w]
    <2>1. CASE CheckFlag(w)
      BY <2>1, RestingAt DEF CheckFlag, TypeOK
    <2>2. CASE CallModule(w)
      BY <2>2 DEF CallModule, TypeOK, Thread
    <2>3. CASE EndOfPass(w)
      BY <2>3, RestingAt DEF EndOfPass, TypeOK
    <2> QED BY <2>1, <2>2, <2>3 DEF ThreadStep
  <1>4. CallInv'
    BY <1>1 DEF IInv, CallInv
  <1>5. HandshakeInv'
    BY <1>1, <1>3 DEF IInv, HandshakeInv, Joinable, Awaited
  <1>6. PassInv'
    <2>1. CASE CheckFlag(w)
      BY <1>1, <1>2, <1>3, <2>1, RestingAt
          DEF CheckFlag, IInv, PassInv, InPass, TypeOK
    <2>2. CASE CallModule(w)
      <3>1. thread[w] \in Thread
        BY DEF TypeOK
      <3>2. /\ thread'[w].last = thread[w].last
            /\ thread'[w].next \in {thread[w].next, thread[w].next + 1}
            /\ thread[w].next <= thread[w].last
            /\ InPass(w)
        BY <2>2, <3>1 DEF CallModule, TypeOK, Thread, InPass
      <3> QED BY <1>1, <1>2, <1>3, <3>1, <3>2 DEF IInv, PassInv, InPass, Thread
    <2>3. CASE EndOfPass(w)
      BY <1>1, <1>3, <2>3, RestingAt
          DEF EndOfPass, IInv, PassInv, InPass, TypeOK
    <2> QED BY <2>1, <2>2, <2>3 DEF ThreadStep
  <1>7. NoThreadAbandoned'
    BY
        DEF IInv, NoThreadAbandoned, ThreadStep, CheckFlag, CallModule, EndOfPass
  <1> QED BY <1>4, <1>5, <1>6, <1>7 DEF IInv

LEMMA NextInv ==
    ASSUME TypeOK, IInv, [Next]_vars
    PROVE  IInv'
  <1>1. ASSUME NEW w \in Waves, Construct(w)
        PROVE  IInv'
    <2>1. /\ UNCHANGED <<thread, modules, call, fate>> /\ call = NoCall
          /\ ~alive[w] /\ alive'[w] /\ ~running'[w]
          /\ \A v \in Waves : v # w => /\ alive'[v] = alive[v]
                                      /\ running'[v] = running[v]
      BY <1>1 DEF Construct, Idle, TypeOK
    <2>2. HandshakeInv'
      BY <2>1, NoCallFields DEF IInv, HandshakeInv, Joinable, Awaited
    <2> QED BY <2>1, <2>2
            DEF IInv, CallInv, PassInv, InPass, NoThreadAbandoned
  <1>2. ASSUME NEW w \in Waves, Execute(w)
        PROVE  IInv'
    <2>1. call = NoCall /\ call' = NoCall /\ \A v \in Waves : ~Awaited(v)
      BY <1>2, NoCallFields DEF Execute, Idle, Awaited
    <2> QED BY <1>2, <2>1, LaunchKeepsInv DEF Execute
  <1>3. ASSUME NEW w \in Waves, Pause(w)
        PROVE  IInv'
    <2>1. CASE running[w] /\ Stop(w, "pause", Nil, "idle")
      BY <1>3, <2>1, StopKeepsInv DEF Pause
    <2>2. CASE UNCHANGED <<running, call>>
      BY <1>3, <2>2 DEF Pause, IInv, CallInv, HandshakeInv, PassInv,
                        NoThreadAbandoned, Joinable, Awaited, InPass
    <2> QED BY <1>3, <2>1, <2>2 DEF Pause
  <1>4. ASSUME NEW w \in Waves, Destroy(w)
        PROVE  IInv'
    BY <1>4, StopKeepsInv DEF Destroy
  <1>5. ASSUME NEW w \in Waves, NEW m \in Modules, AddModule(w, m)
        PROVE  IInv'
    BY <1>5, StopKeepsInv DEF AddModule
  <1>6. CASE Join
    <2>1. call.wave \in Waves
      BY <1>6, NoCallFields DEF Join, IInv, CallInv
    <2> QED BY <1>6, <2>1, JoinKeepsInv
  <1>7. CASE Insert
    BY <1>7, InsertKeepsInv
  <1>8. CASE Restart
    <2>1. /\ call.wave \in Waves /\ \A v \in Waves : ~Awaited(v)
          /\ alive[call.wave] /\ UNCHANGED <<alive, modules>>
          /\ call' = NoCall /\ Launch(call.wave)
      BY <1>8, NoCallFields DEF Restart, IInv, CallInv, Awaited
    <2> QED BY <2>1, LaunchKeepsInv
  <1>9. CASE Free
    BY <1>9, FreeKeepsInv
  <1>10. ASSUME NEW w \in Waves, ThreadStep(w)
         PROVE  IInv'
    BY <1>10, ThreadStepKeepsInv
  <1>11. CASE UNCHANGED vars
    BY <1>11 DEF vars, IInv, CallInv, HandshakeInv, PassInv, NoThreadAbandoned,
                 Joinable, Awaited, InPass
  <1> QED BY <1>1, <1>2, <1>3, <1>4, <1>5, <1>6, <1>7, <1>8, <1>9, <1>10,
             <1>11 DEF Next, Begin, Continue

THEOREM InvariantHolds == Spec => [](TypeOK /\ IInv)
  <1>1. Init => TypeOK /\ IInv
    BY InitTypes, InitInv
  <1>2. TypeOK /\ IInv /\ [Next]_vars => (TypeOK /\ IInv)'
    BY NextTypes, NextInv DEF IInv
  <1> QED BY <1>1, <1>2, PTL DEF Spec

-----------------------------------------------------------------------------
(***************************************************************************)
(* The properties the runs check, for every instance.                      *)
(***************************************************************************)

(***************************************************************************)
(* The state of every wave, thread and call keeps its type; an index       *)
(* recorded by addModule() is a size_t even when it wraps.                 *)
(***************************************************************************)
THEOREM TypeCorrect == Spec => []TypeOK
  BY InvariantHolds, PTL

(***************************************************************************)
(* No joinable std::thread is assigned to or destroyed, even after the     *)
(* creation of a thread failed.                                            *)
(***************************************************************************)
THEOREM ThreadsAreNeverAbandoned == Spec => []NoThreadAbandoned
  <1>1. IInv => NoThreadAbandoned
    BY DEF IInv
  <1> QED BY <1>1, InvariantHolds, PTL

(***************************************************************************)
(* modules_ changes only while its wave has no thread.                     *)
(***************************************************************************)
LEMMA OnlyTwoStepsChangeLists ==
    ASSUME [Next]_vars, modules' # modules
    PROVE  Insert \/ Free
  BY DEF Next, Begin, Continue, ThreadStep, Construct, Execute, Pause, Destroy,
         AddModule, Join, Restart, CheckFlag, CallModule, EndOfPass, vars

THEOREM ListsChangeOnlyWithoutThread == Spec => ListChangesWithoutThread
  <1>1. TypeOK /\ IInv /\ [Next]_vars =>
          [\A w \in Waves : modules'[w] # modules[w] => ~Joinable(w)]_vars
    <2> SUFFICES ASSUME TypeOK, IInv, [Next]_vars, NEW w \in Waves,
                        modules'[w] # modules[w]
                 PROVE  ~Joinable(w)
      OBVIOUS
    <2>1. Insert \/ Free
      BY OnlyTwoStepsChangeLists
    <2>2. call.wave = w
      BY <2>1 DEF Insert, Free, TypeOK
    <2>3. call.at \in {"insert", "free"}
      BY <2>1 DEF Insert, Free
    <2> QED BY <2>2, <2>3 DEF IInv, HandshakeInv
  <1> QED BY <1>1, InvariantHolds, PTL DEF Spec, ListChangesWithoutThread

-----------------------------------------------------------------------------
(***************************************************************************)
(* pause() waits for the end of one pass, and no longer.                   *)
(***************************************************************************)

\* While a thread is awaited, it alone changes what it has left to do.
LEMMA OnlyItsThreadMoves ==
    ASSUME TypeOK, IInv, [Next]_vars, NEW w \in Waves,
           Awaited(w), Awaited(w)', thread'[w] # thread[w]
    PROVE  ThreadStep(w)
  <1>1. call # NoCall /\ call.at = "join" /\ call'.at = "join"
    BY NoCallFields DEF Awaited
  <1>2. ~Begin
    BY <1>1
        DEF Begin, Construct, Execute, Pause, AddModule, Destroy, Idle
  <1>3. ~Continue
    <2>1. AfterJoin.at # "join"
      BY NoCallFields DEF AfterJoin, TypeOK, Call
    <2>2. ~(Insert \/ Restart \/ Free)
      BY <1>1 DEF Insert, Restart, Free
    <2>3. ~Join
      BY <1>1, <2>1, NoCallFields DEF Join
    <2> QED BY <2>2, <2>3 DEF Continue
  <1>4. PICK v \in Waves : ThreadStep(v)
    BY <1>2, <1>3 DEF Next, vars
  <1>5. v = w
    BY <1>4 DEF ThreadStep, CheckFlag, CallModule, EndOfPass, TypeOK
  <1> QED BY <1>4, <1>5

\* And each of its steps leaves it less to do, for its flag is down.
LEMMA ThreadNearsItsEnd ==
    ASSUME TypeOK, IInv, NEW w \in Waves, Awaited(w),
           ThreadStep(w), thread'[w] # thread[w]
    PROVE  StepsLeft(w)' \in 0 .. StepsLeft(w) - 1
  <1>1. ~running[w] /\ thread[w] \in Thread
    BY NoCallFields DEF IInv, HandshakeInv, Awaited, TypeOK
  <1>2. CASE CheckFlag(w)
    <2>1. thread'[w].at = "ended" /\ thread[w].at = "check"
      BY <1>1, <1>2, RestingAt DEF CheckFlag, TypeOK
    <2> QED BY <2>1 DEF StepsLeft, InPass
  <1>3. CASE CallModule(w)
    <2>1. /\ thread[w].at = "loop" /\ thread[w].next <= thread[w].last
          /\ thread'[w] = [thread[w] EXCEPT !.next = @ + 1]
      BY <1>3 DEF CallModule, TypeOK
    <2>2. /\ thread'[w].at = "loop" /\ thread'[w].last = thread[w].last
          /\ thread'[w].next = thread[w].next + 1
      BY <1>1, <2>1 DEF Thread
    <2>3. /\ StepsLeft(w) = thread[w].last - thread[w].next + 3
          /\ StepsLeft(w)' = thread[w].last - (thread[w].next + 1) + 3
      BY <2>1, <2>2 DEF StepsLeft, InPass
    <2>4. thread[w].last \in Nat /\ thread[w].next \in Nat
      BY <1>1 DEF Thread
    <2> QED BY <2>1, <2>3, <2>4
  <1>4. CASE EndOfPass(w)
    <2>1. /\ thread[w].at = "loop" /\ thread[w].next > thread[w].last
          /\ thread'[w].at = "check"
      BY <1>1, <1>4, RestingAt DEF EndOfPass, TypeOK
    <2>2. thread[w].next \in 1 .. thread[w].last + 1
      BY <2>1 DEF InPass, IInv, PassInv
    <2>3. /\ StepsLeft(w) = thread[w].last - thread[w].next + 3
          /\ StepsLeft(w)' = 1
      BY <2>1 DEF StepsLeft, InPass
    <2>4. thread[w].last \in Nat /\ thread[w].next \in Nat
      BY <1>1 DEF Thread
    <2> QED BY <2>1, <2>2, <2>3, <2>4
  <1> QED BY <1>2, <1>3, <1>4 DEF ThreadStep

(***************************************************************************)
(* The thread pause(), addModule() or the destructor waits for gets nearer *)
(* to its end with each of its steps: it ends the pass it is in and begins *)
(* no other, for nothing raises the flag while the call waits.             *)
(***************************************************************************)
THEOREM WaitsAreShort == Spec => WaitsGetShorter
  <1>1. TypeOK /\ IInv /\ [Next]_vars =>
          [\A w \in Waves :
              Awaited(w) /\ Awaited(w)' /\ thread'[w] # thread[w]
                  => StepsLeft(w)' \in 0 .. StepsLeft(w) - 1]_vars
    BY OnlyItsThreadMoves, ThreadNearsItsEnd
  <1> QED BY <1>1, InvariantHolds, PTL DEF Spec, WaitsGetShorter

-----------------------------------------------------------------------------
(***************************************************************************)
(* No module is in two lists, or twice in one: a unique_ptr is moved from  *)
(* hand to hand, and addModule() is given a module of no list.             *)
(***************************************************************************)
OwnedOnce ==
    \A v, w \in Waves :
        \A i \in 1..Len(modules[v]), j \in 1..Len(modules[w]) :
            modules[v][i] = modules[w][j] => v = w /\ i = j

\* The module that is about to be added is nowhere else.
Adding == call.name = "add" /\ call.at # "restart"

AddInv == Adding => \A v \in Waves : ~Owns(v, call.module)

\* An addModule() that is under way began with a module of no wave.
LEMMA AddBegins ==
    ASSUME TypeOK, IInv, [Next]_vars, Adding'
    PROVE  \/ Adding /\ call'.module = call.module
           \/ \A v \in Waves : ~Owns(v, call'.module)
<1>0. call \in Call
  BY DEF TypeOK
<1>1. CASE Begin
  BY <1>1, NoCallFields
  DEF Begin, Construct, Execute, Pause, Destroy, AddModule, Stop, Idle, Adding
<1>2. CASE Join
  <2>1. call' = AfterJoin \/ call' = NoCall \/ call' = call
    BY <1>2 DEF Join
  <2>2. CASE call.name = "add"
    <3>1. AfterJoin.module = call.module
      BY <1>0, <2>2 DEF AfterJoin, Call
    <3>2. call.at # "restart"
      BY <1>2 DEF Join
    <3> QED
      BY <2>1, <2>2, <3>1, <3>2, NoCallFields DEF Adding
  <2>3. CASE call.name = "destroy"
    BY <1>0, <2>1, <2>3, NoCallFields DEF AfterJoin, Call, Adding
  <2>4. CASE call.name \notin {"add", "destroy"}
    BY <2>1, <2>4, NoCallFields DEF AfterJoin, Adding
  <2> QED
    BY <2>2, <2>3, <2>4
<1>3. CASE Insert \/ Restart
  BY <1>0, <1>3, NoCallFields DEF Insert, Restart, Adding, Call
<1>4. CASE Free
  BY <1>4, NoCallFields DEF Free, Adding
<1>5. CASE \E w \in Waves : ThreadStep(w)
  BY <1>5 DEF ThreadStep, CheckFlag, CallModule, EndOfPass, Adding
<1> QED
  BY <1>1, <1>2, <1>3, <1>4, <1>5 DEF Next, Continue, vars, Adding

\* The lists change by the end of addModule() and of the destructor only.
LEMMA OwnersAreKept ==
    ASSUME TypeOK, IInv, AddInv, OwnedOnce, [Next]_vars
    PROVE  AddInv' /\ OwnedOnce'
<1>1. CASE modules' = modules
  BY <1>1, AddBegins DEF AddInv, OwnedOnce, Owns
<1>2. CASE Insert
  <2>1. PICK w \in Waves, m \in Modules : w = call.wave /\ m = call.module
    BY <1>2, NoCallFields DEF Insert, IInv, CallInv
  <2>2. /\ modules \in [Waves -> Seq(Modules)]
        /\ modules' = [modules EXCEPT ![w] = Append(modules[w], m)]
    BY <1>2, <2>1 DEF Insert, TypeOK
  <2>3. \A v \in Waves : ~Owns(v, m)
    BY <1>2, <2>1 DEF Insert, AddInv, Adding, IInv, CallInv
  <2>4. ~Adding'
    BY <1>2, NoCallFields DEF Insert, TypeOK, Call, Adding
  <2>5. modules[w] \in Seq(Modules) /\ Len(modules[w]) \in Nat
    BY <2>2, LenIsNat
  <2>6. /\ \A v \in Waves \ {w} : modules'[v] = modules[v]
        /\ Len(modules'[w]) = Len(modules[w]) + 1
        /\ modules'[w][Len(modules[w]) + 1] = m
        /\ \A i \in 1..Len(modules[w]) : modules'[w][i] = modules[w][i]
    BY <2>2, <2>5
  <2>7. \A v \in Waves : \A i \in 1..Len(modules[v]) : modules[v][i] # m
    BY <2>3 DEF Owns
  <2>8. ASSUME NEW v \in Waves, NEW i \in 1..Len(modules'[v])
        PROVE  \/ v = w /\ i = Len(modules[w]) + 1 /\ modules'[v][i] = m
               \/ /\ i \in 1..Len(modules[v])
                  /\ modules'[v][i] = modules[v][i]
                  /\ modules'[v][i] # m
    BY <2>5, <2>6, <2>7
  <2>9. OwnedOnce'
    <3> SUFFICES ASSUME NEW u \in Waves, NEW v \in Waves,
                        NEW i \in 1..Len(modules'[u]),
                        NEW j \in 1..Len(modules'[v]),
                        modules'[u][i] = modules'[v][j]
                 PROVE  u = v /\ i = j
      BY DEF OwnedOnce
    <3> QED
      BY <2>8 DEF OwnedOnce
  <2> QED
    BY <2>4, <2>9 DEF AddInv
<1>3. CASE Free
  <2>1. /\ \A v \in Waves : modules'[v] = modules[v] \/ modules'[v] = <<>>
    BY <1>3 DEF Free, TypeOK
  <2>2. OwnedOnce'
    BY <2>1 DEF OwnedOnce
  <2>3. ~Adding'
    BY <1>3, NoCallFields DEF Free, Adding, IInv, CallInv, HandshakeInv
  <2> QED
    BY <2>2, <2>3 DEF AddInv
<1> QED
  BY <1>1, <1>2, <1>3, OnlyTwoStepsChangeLists

-----------------------------------------------------------------------------
(***************************************************************************)
(* If threads can always be created, the flag stands for the thread.       *)
(***************************************************************************)
SpawnInv == SpawnMayFail \/ \A w \in Waves :
                               running[w] \/ Awaited(w) => Joinable(w)

LEMMA SpawnStep ==
    ASSUME TypeOK, IInv, SpawnInv, [Next]_vars
    PROVE  SpawnInv'
  <1> SUFFICES ASSUME ~SpawnMayFail PROVE SpawnInv'
    BY DEF SpawnInv
  <1>1. ASSUME NEW w \in Waves, Construct(w)
        PROVE  SpawnInv'
    BY <1>1 DEF Construct, SpawnInv, Joinable, Awaited, TypeOK
  <1>2. ASSUME NEW w \in Waves, Launch(w), \A v \in Waves : ~Awaited(v)',
               ~Awaited(w)
        PROVE  SpawnInv'
    <2>1. CASE running[w] /\ UNCHANGED <<running, thread>>
      BY <1>2, <2>1 DEF SpawnInv, Joinable
    <2>2. CASE ~running[w]
      <3>1. ~Joinable(w)
        BY <1>2, <2>2 DEF IInv, HandshakeInv
      <3>2. /\ thread' = [thread EXCEPT ![w] = Resting("check")]
            /\ running' = [running EXCEPT ![w] = TRUE]
        BY <1>2, <2>2, <3>1 DEF Launch
      <3> QED BY <1>2, <3>2, RestingAt DEF SpawnInv, Joinable, TypeOK
    <2> QED BY <1>2, <2>1, <2>2 DEF Launch
  <1>3. ASSUME NEW w \in Waves, Execute(w)
        PROVE  SpawnInv'
    BY <1>2, <1>3, NoCallFields DEF Execute, Idle, Awaited
  <1>4. ASSUME NEW w \in Waves, NEW m, NEW name, NEW then,
               Stop(w, name, m, then), thread' = thread, then # "join"
        PROVE  SpawnInv'
    <2>1. /\ \A v \in Waves : running'[v] => running[v]
          /\ call'.wave = w
          /\ call'.at = "join" => running[w]
      BY <1>4 DEF Stop, TypeOK
    <2> QED BY <1>4, <2>1 DEF SpawnInv, Joinable, Awaited
  <1>5. ASSUME NEW w \in Waves, Pause(w)
        PROVE  SpawnInv'
    <2>1. CASE UNCHANGED <<running, call>>
      BY <1>5, <2>1 DEF Pause, SpawnInv, Joinable, Awaited
    <2> QED BY <1>4, <1>5, <2>1 DEF Pause
  <1>6. ASSUME NEW w \in Waves, Destroy(w)
        PROVE  SpawnInv'
    BY <1>4, <1>6 DEF Destroy
  <1>7. ASSUME NEW w \in Waves, NEW m \in Modules, AddModule(w, m)
        PROVE  SpawnInv'
    BY <1>4, <1>7 DEF AddModule
  <1>8. CASE Join
    <2>1. call # NoCall /\ call.at = "join"
      BY <1>8, NoCallFields DEF Join
    <2>2. PICK w \in Waves : w = call.wave
      BY <2>1 DEF IInv, CallInv
    <2>3. Joinable(w) /\ ~running[w]
      BY <2>1, <2>2 DEF SpawnInv, IInv, HandshakeInv, Awaited
    <2>4. /\ thread' = [thread EXCEPT ![w] = Resting("none")]
          /\ call' = AfterJoin /\ running' = running
      BY <1>8, <2>2, <2>3 DEF Join
    <2>5. call'.at # "join"
      BY <2>4, NoCallFields DEF AfterJoin, TypeOK, Call
    <2> QED BY <2>3, <2>4, <2>5 DEF SpawnInv, Joinable, Awaited, TypeOK
  <1>9. CASE Insert \/ Free
    <2>1. UNCHANGED <<running, thread>>
      BY <1>9 DEF Insert, Free
    <2>2. call'.at # "join"
      BY <1>9, NoCallFields DEF Insert, Free, TypeOK, Call
    <2> QED BY <2>1, <2>2 DEF SpawnInv, Joinable, Awaited
  <1>10. CASE Restart
    <2>1. /\ call.wave \in Waves /\ Launch(call.wave)
          /\ \A v \in Waves : ~Awaited(v) /\ ~Awaited(v)'
      BY <1>10, NoCallFields DEF Restart, IInv, CallInv, Awaited
    <2> QED BY <1>2, <2>1
  <1>11. ASSUME NEW w \in Waves, ThreadStep(w)
         PROVE  SpawnInv'
    <2>1. UNCHANGED <<running, call>>
      BY <1>11 DEF ThreadStep, CheckFlag, CallModule, EndOfPass
    <2>2. \A v \in Waves : Joinable(v) => Joinable(v)'
      <3>1. CASE CheckFlag(w)
        BY <3>1, RestingAt DEF CheckFlag, Joinable, TypeOK
      <3>2. CASE CallModule(w)
        BY <3>2 DEF CallModule, Joinable, TypeOK, Thread
      <3>3. CASE EndOfPass(w)
        BY <3>3, RestingAt DEF EndOfPass, Joinable, TypeOK
      <3> QED BY <1>11, <3>1, <3>2, <3>3 DEF ThreadStep
    <2> QED BY <2>1, <2>2 DEF SpawnInv, Awaited
  <1>12. CASE UNCHANGED vars
    BY <1>12 DEF vars, SpawnInv, Joinable, Awaited
  <1> QED BY <1>1, <1>3, <1>5, <1>6, <1>7, <1>8, <1>9, <1>10, <1>11, <1>12
          DEF Next, Begin, Continue

LEMMA SpawnInvHolds == Spec => []SpawnInv
  <1>1. Init => SpawnInv
    BY NoCallFields DEF Init, SpawnInv, Awaited
  <1> QED BY <1>1, SpawnStep, InvariantHolds, PTL DEF Spec

(***************************************************************************)
(* isRunning() tells, between two calls, whether the wave has a thread.    *)
(***************************************************************************)
THEOREM FlagTellsThread ==
    ASSUME ~SpawnMayFail
    PROVE  Spec => []RunningMeansThread
  <1>1. TypeOK /\ IInv /\ SpawnInv => RunningMeansThread
    BY NoCallFields DEF SpawnInv, IInv, HandshakeInv, RunningMeansThread, Idle,
                        Awaited
  <1> QED BY <1>1, InvariantHolds, SpawnInvHolds, PTL

(***************************************************************************)
(* The join() of every pause() finds a thread, and so does not throw.      *)
(***************************************************************************)
THEOREM JoinIsSafe ==
    ASSUME ~SpawnMayFail
    PROVE  Spec => []JoinFindsThread
  <1>1. IInv /\ SpawnInv => JoinFindsThread
    BY NoCallFields DEF SpawnInv, IInv, CallInv, JoinFindsThread, Awaited
  <1> QED BY <1>1, InvariantHolds, SpawnInvHolds, PTL

-----------------------------------------------------------------------------
\* The steps of a wave, seen as steps of PassLoop.
LEMMA StutterOfPasses ==
    ASSUME modules' = modules,
           \A w \in Waves : /\ InPass(w)' <=> InPass(w)
                            /\ InPass(w) => thread'[w].next = thread[w].next
    PROVE  UNCHANGED PassesOf!loopVars
  BY DEF PassesOf!loopVars, InPass

LEMMA InitOfPasses == ASSUME Init PROVE PassesOf!Init
  <1>1. \A w \in Waves : InPass(w) = FALSE
    <2>1. \A w \in Waves : thread[w].at = "none"
      BY RestingAt DEF Init
    <2> QED BY <2>1 DEF InPass
  <1>2. modules = [w \in Waves |-> <<>>]
    BY DEF Init
  <1> QED BY <1>1, <1>2 DEF PassesOf!Init

LEMMA LaunchOfPasses ==
    ASSUME TypeOK, NEW w \in Waves, Launch(w), modules' = modules
    PROVE  [PassesOf!Next]_(PassesOf!loopVars)
  <1>1. \/ thread' = thread
        \/ /\ thread' = [thread EXCEPT ![w] = Resting("check")]
           /\ ~Joinable(w)
    BY DEF Launch
  <1> QED BY <1>1, RestingAt, StutterOfPasses DEF InPass, Joinable, TypeOK

LEMMA StepsOfPasses ==
    ASSUME TypeOK, IInv, [Next]_vars
    PROVE  [PassesOf!Next]_(PassesOf!loopVars)
  <1>1. ASSUME NEW w \in Waves, CheckFlag(w)
        PROVE  [PassesOf!Next]_(PassesOf!loopVars)
    <2>1. CASE running[w]
      <3>1. /\ thread' = [thread EXCEPT
                            ![w] = [at |-> "loop", next |-> 1,
                                    last |-> Len(modules[w])]]
            /\ thread[w].at = "check" /\ modules' = modules
        BY <1>1, <2>1 DEF CheckFlag
      <3>2. /\ \A v \in Waves : v # w => thread'[v] = thread[v]
            /\ InPass(w) = FALSE /\ InPass(w)' = TRUE
            /\ thread'[w].next = 1
        BY <3>1 DEF InPass, TypeOK
      <3>3. \A v \in Waves : v # w => InPass(v)' = InPass(v)
        BY <3>2 DEF InPass
      <3>4. PassesOf!BeginPass(w)
        <4>1. [v \in Waves |-> InPass(v)]'
                = [[v \in Waves |-> InPass(v)] EXCEPT ![w] = TRUE]
          BY <3>2, <3>3
        <4>2. [v \in Waves |-> IF InPass(v) THEN thread[v].next - 1 ELSE 0]'
                = [v \in Waves |-> IF InPass(v) THEN thread[v].next - 1 ELSE 0]
          BY <3>2, <3>3
        <4> QED BY <3>1, <3>2, <4>1, <4>2 DEF PassesOf!BeginPass
      <3> QED BY <3>4 DEF PassesOf!Next
    <2>2. CASE ~running[w]
      <3>1. /\ thread' = [thread EXCEPT ![w] = Resting("ended")]
            /\ thread[w].at = "check" /\ modules' = modules
        BY <1>1, <2>2 DEF CheckFlag
      <3> QED BY <3>1, RestingAt, StutterOfPasses DEF InPass, TypeOK
    <2> QED BY <2>1, <2>2
  <1>2. ASSUME NEW w \in Waves, CallModule(w)
        PROVE  [PassesOf!Next]_(PassesOf!loopVars)
    <2>1. /\ InPass(w) /\ modules' = modules
          /\ thread[w] \in Thread
          /\ thread[w].last = Len(modules[w])
          /\ thread[w].next <= Len(modules[w])
      BY <1>2 DEF CallModule, IInv, PassInv, InPass, TypeOK
    <2>2. CASE thread' = thread
      BY <2>1, <2>2, StutterOfPasses DEF InPass
    <2>3. CASE thread' = [thread EXCEPT ![w].next = @ + 1]
      <3>1. /\ \A v \in Waves : v # w => thread'[v] = thread[v]
            /\ thread'[w].at = "loop"
            /\ thread'[w].next = thread[w].next + 1
            /\ thread[w].next \in Nat
        BY <2>1, <2>3 DEF TypeOK, Thread, InPass
      <3> DEFINE Done(v) == IF InPass(v) THEN thread[v].next - 1 ELSE 0
      <3>2. PassesOf!CallNext(w)
        <4>1. thread[w].next - 1 < Len(modules[w])
          <5>1. modules[w] \in Seq(Modules)
            BY DEF TypeOK
          <5>2. Len(modules[w]) \in Nat
            BY <5>1, LenIsNat
          <5> QED BY <2>1, <3>1, <5>2
        <4>2. [v \in Waves |-> InPass(v)]' = [v \in Waves |-> InPass(v)]
          BY <2>1, <3>1 DEF InPass
        <4>3. [v \in Waves |-> Done(v)]'
              = [[v \in Waves |-> Done(v)] EXCEPT ![w] = @ + 1]
          <5>1. \A v \in Waves : v # w => Done(v)' = Done(v)
            BY <3>1 DEF InPass
          <5>2. Done(w)' = Done(w) + 1
            BY <2>1, <3>1 DEF InPass
          <5> HIDE DEF Done
          <5> QED BY <5>1, <5>2
        <4> QED BY <2>1, <4>1, <4>2, <4>3 DEF PassesOf!CallNext
      <3> QED BY <3>2 DEF PassesOf!Next
    <2> QED BY <1>2, <2>2, <2>3 DEF CallModule
  <1>3. ASSUME NEW w \in Waves, EndOfPass(w)
        PROVE  [PassesOf!Next]_(PassesOf!loopVars)
    <2>1. /\ InPass(w) /\ modules' = modules
          /\ thread' = [thread EXCEPT ![w] = Resting("check")]
      BY <1>3 DEF EndOfPass, InPass
    <2>2. thread[w].next - 1 = Len(modules[w])
      <3>1. modules[w] \in Seq(Modules) /\ thread[w] \in Thread
        BY DEF TypeOK
      <3>2. Len(modules[w]) \in Nat
        BY <3>1, LenIsNat
      <3> QED BY <1>3, <2>1, <3>1, <3>2 DEF EndOfPass, IInv, PassInv, Thread
    <2>3. /\ \A v \in Waves : v # w => thread'[v] = thread[v]
          /\ InPass(w) = TRUE /\ InPass(w)' = FALSE
      <3>1. /\ \A v \in Waves : v # w => thread'[v] = thread[v]
            /\ thread'[w].at = "check"
        BY <2>1, RestingAt DEF TypeOK
      <3> QED BY <2>1, <3>1 DEF InPass
    <2>4. \A v \in Waves : v # w => InPass(v)' = InPass(v)
      BY <2>3 DEF InPass
    <2>5. PassesOf!EndPass(w)
      <3>1. [v \in Waves |-> InPass(v)]'
              = [[v \in Waves |-> InPass(v)] EXCEPT ![w] = FALSE]
        BY <2>3, <2>4
      <3>2. [v \in Waves |-> IF InPass(v) THEN thread[v].next - 1 ELSE 0]'
              = [[v \in Waves |-> IF InPass(v) THEN thread[v].next - 1 ELSE 0]
                   EXCEPT ![w] = 0]
        BY <2>3, <2>4
      <3> QED BY <2>1, <2>2, <3>1, <3>2 DEF PassesOf!EndPass
    <2> QED BY <2>5 DEF PassesOf!Next
  <1>4. CASE Insert
    <2>1. /\ call.wave \in Waves /\ call.module \in Modules
          /\ ~InPass(call.wave) /\ thread' = thread
          /\ modules' = [modules EXCEPT ![call.wave] = Append(@, call.module)]
      BY <1>4, NoCallFields
          DEF Insert, IInv, CallInv, HandshakeInv, Joinable,
                                InPass
    <2>2. PassesOf!Extend(call.wave, call.module)
      BY <2>1 DEF PassesOf!Extend, InPass
    <2> QED BY <2>1, <2>2 DEF PassesOf!Next
  <1>5. CASE Free
    <2>1. /\ call.wave \in Waves /\ ~InPass(call.wave) /\ thread' = thread
          /\ modules' = [modules EXCEPT ![call.wave] = <<>>]
      BY <1>5, NoCallFields DEF Free, IInv, CallInv, HandshakeInv, Joinable,
                                InPass
    <2>2. PassesOf!Clear(call.wave)
      BY <2>1 DEF PassesOf!Clear, InPass
    <2> QED BY <2>1, <2>2 DEF PassesOf!Next
  <1>7. CASE Restart
    <2>1. call.wave \in Waves /\ ~Awaited(call.wave)
      BY <1>7, NoCallFields DEF Restart, IInv, CallInv, Awaited
    <2> QED BY <1>7, <2>1, LaunchOfPasses DEF Restart
  <1>8. ASSUME NEW w \in Waves, Execute(w)
        PROVE  [PassesOf!Next]_(PassesOf!loopVars)
    BY <1>8, LaunchOfPasses, NoCallFields DEF Execute, Idle, Awaited
  <1>9. CASE Join
    <2>1. \/ thread' = thread
          \/ /\ thread' = [thread EXCEPT ![call.wave] = Resting("none")]
             /\ thread[call.wave].at = "ended"
      BY <1>9 DEF Join
    <2>2. modules' = modules
      BY <1>9 DEF Join
    <2> QED BY <2>1, <2>2, RestingAt, StutterOfPasses DEF InPass, TypeOK
  <1>10. CASE UNCHANGED <<thread, modules>>
    BY <1>10, StutterOfPasses DEF InPass
  <1> QED BY <1>1, <1>2, <1>3, <1>4, <1>5, <1>7, <1>8, <1>9, <1>10
          DEF Next, Begin, Continue, ThreadStep, Construct, Pause, Destroy,
              AddModule, vars

(***************************************************************************)
(* Every wave loops over its modules as PassLoop says, whichever calls the *)
(* controller makes and whichever threads or modules fail.                 *)
(***************************************************************************)
THEOREM ImplementsPassLoop == Spec => LoopsInPasses
  <1>1. TypeOK /\ IInv /\ [Next]_vars => [PassesOf!Next]_(PassesOf!loopVars)
    BY StepsOfPasses
  <1> QED BY <1>1, InitOfPasses, InvariantHolds, PTL
          DEF Spec, LoopsInPasses, PassesOf!Spec

=============================================================================
