----------------------------- MODULE BrainWave ------------------------------
(***************************************************************************)
(* Core::BrainWave: a list of modules and the thread that loops over it.   *)
(*                                                                         *)
(* Two kinds of process interleave.  The controller, the one thread that   *)
(* calls the public functions (the console's), makes one call at a time;   *)
(* a call that waits or that works on a wave in several stages is split    *)
(* at `call.at`.  Each running wave has a thread of its own, whose         *)
(* program is launchWave().  They share the flag running_, an atomic, and  *)
(* the list modules_, which nothing protects.                              *)
(*                                                                         *)
(* The move constructor and the move assignment are in BrainWaveMove.      *)
(***************************************************************************)
EXTENDS Integers, Sequences

CONSTANTS
    Waves,         \* the BrainWave objects
    Modules,       \* the ModuleInterface objects
    Names,         \* what modules may be called
    NameOf,        \* [Modules -> Names]: getName()
    MaxIndex,      \* the largest size_t
    MayThrow,      \* the modules whose execute() may end with an exception
    SpawnMayFail,  \* whether std::thread's constructor may throw system_error
    Nil

ASSUME NameAssumption == NameOf \in [Modules -> Names]
ASSUME WidthAssumption == MaxIndex \in Nat \ {0}
ASSUME FaultAssumption == MayThrow \subseteq Modules /\ SpawnMayFail \in BOOLEAN
ASSUME NilAssumption == Nil \notin Waves \cup Modules \cup Nat

VARIABLES
    alive,    \* [Waves -> BOOLEAN]: constructed and not yet destroyed
    running,  \* [Waves -> BOOLEAN]: running_
    thread,   \* [Waves -> Thread]: wave_ and where launchWave() is in it
    modules,  \* [Waves -> Seq(Modules)]: modules_
    indices,  \* [Waves -> [Names -> size_t or Nil]]: indices_
    call,     \* the controller's call in progress
    fate      \* "up", or why the program ended

vars == <<alive, running, thread, modules, indices, call, fate>>

(***************************************************************************)
(* A std::thread is joinable unless it is at "none".  In the range-for,    *)
(* next and last are the positions of its two iterators: the module it     *)
(* calls next, and the last one there was when the pass began.             *)
(***************************************************************************)
Thread == [at : {"none", "check", "loop", "ended"}, next : Nat, last : Nat]

Resting(at) == [at |-> at, next |-> 0, last |-> 0]

Joinable(w) == thread[w].at # "none"

(***************************************************************************)
(* "join" is wave_.join() in pause(); "insert" and "restart" are the two   *)
(* halves of addModule() after it; "free" is the destruction of members.   *)
(***************************************************************************)
Call == [name   : {"none", "pause", "add", "destroy"},
         at     : {"idle", "join", "insert", "restart", "free"},
         wave   : Waves \cup {Nil},
         module : Modules \cup {Nil},
         resume : BOOLEAN]

NoCall == [name |-> "none", at |-> "idle", wave |-> Nil, module |-> Nil,
           resume |-> FALSE]

(***************************************************************************)
(* The program ends in std::terminate, or ("undefined") its behaviour is   *)
(* no longer defined.  "misread" and "uncaught" happen in Brain.           *)
(***************************************************************************)
Fates == {"up", "threw", "misread", "uncaught", "overwritten", "join failed",
          "undefined"}

NoIndices == [n \in Names |-> Nil]

TypeOK ==
    /\ alive \in [Waves -> BOOLEAN]
    /\ running \in [Waves -> BOOLEAN]
    /\ thread \in [Waves -> Thread]
    /\ modules \in [Waves -> Seq(Modules)]
    /\ indices \in [Waves -> [Names -> 0..MaxIndex \cup {Nil}]]
    /\ call \in Call
    /\ fate \in Fates

Init ==
    /\ alive = [w \in Waves |-> FALSE]
    /\ running = [w \in Waves |-> FALSE]
    /\ thread = [w \in Waves |-> Resting("none")]
    /\ modules = [w \in Waves |-> <<>>]
    /\ indices = [w \in Waves |-> NoIndices]
    /\ call = NoCall
    /\ fate = "up"

Owns(w, m) == \E i \in 1..Len(modules[w]) : modules[w][i] = m

Idle == fate = "up" /\ call = NoCall

-----------------------------------------------------------------------------
(***************************************************************************)
(* The controller.                                                         *)
(***************************************************************************)

Construct(w) ==
    /\ Idle /\ ~alive[w]
    /\ alive' = [alive EXCEPT ![w] = TRUE]
    /\ running' = [running EXCEPT ![w] = FALSE]
    /\ UNCHANGED <<thread, modules, indices, call, fate>>

\* Mutant of Launch: the flag is not set.
LaunchUnflagged(w) ==
    /\ ~running[w] /\ ~Joinable(w)
    /\ thread' = [thread EXCEPT ![w] = Resting("check")]
    /\ UNCHANGED <<running, fate>>

(***************************************************************************)
(* execute(): nothing if the flag is set.  The flag is set before the      *)
(* thread is made, and stays set if that fails.  Assigning to a joinable   *)
(* std::thread is std::terminate.                                          *)
(***************************************************************************)
Launch(w) ==
    \/ running[w] /\ UNCHANGED <<running, thread, fate>>
    \/ /\ ~running[w]
       /\ running' = [running EXCEPT ![w] = TRUE]
       /\ \/ /\ ~Joinable(w)
             /\ thread' = [thread EXCEPT ![w] = Resting("check")]
             /\ UNCHANGED fate
          \/ Joinable(w) /\ fate' = "overwritten" /\ UNCHANGED thread
          \/ SpawnMayFail /\ UNCHANGED <<thread, fate>>

Execute(w) ==
    /\ Idle /\ alive[w]
    /\ Launch(w)
    /\ UNCHANGED <<alive, modules, indices, call>>

\* Mutant of Cleared: the flag is left up.
FlagUp(w) == running

\* running_.store(false).
Cleared(w) == [running EXCEPT ![w] = FALSE]

\* A wave that is not running has nothing to wait for.
WaitOr(w, then) == IF running[w] THEN "join" ELSE then

\* pause(), up to the join, and what comes after it.
Stop(w, name, m, then) ==
    /\ running' = Cleared(w)
    /\ call' = [name |-> name, wave |-> w, module |-> m, resume |-> running[w],
                at |-> WaitOr(w, then)]

Pause(w) ==
    /\ Idle /\ alive[w]
    /\ \/ ~running[w] /\ UNCHANGED <<running, call>>
       \/ running[w] /\ Stop(w, "pause", Nil, "idle")
    /\ UNCHANGED <<alive, thread, modules, indices, fate>>

AddModule(w, m) ==
    /\ Idle /\ alive[w] /\ \A v \in Waves : ~Owns(v, m)
    /\ Stop(w, "add", m, "insert")
    /\ UNCHANGED <<alive, thread, modules, indices, fate>>

Destroy(w) ==
    /\ Idle /\ alive[w]
    /\ Stop(w, "destroy", Nil, "free")
    /\ UNCHANGED <<alive, thread, modules, indices, fate>>

AfterJoin == CASE call.name = "add"     -> [call EXCEPT !.at = "insert"]
               [] call.name = "destroy" -> [call EXCEPT !.at = "free"]
               [] OTHER                 -> NoCall

(***************************************************************************)
(* join() waits for launchWave() to return.  On a thread that was never    *)
(* made it throws, which abandons the call: a destructor does not let the  *)
(* exception out, and the module of an addModule() dies with its caller.   *)
(***************************************************************************)
Join ==
    LET w == call.wave IN
    /\ fate = "up" /\ call.at = "join"
    /\ \/ /\ thread[w].at = "ended"
          /\ thread' = [thread EXCEPT ![w] = Resting("none")]
          /\ call' = AfterJoin
          /\ UNCHANGED fate
       \/ /\ ~Joinable(w) /\ call.name # "destroy"
          /\ call' = NoCall
          /\ UNCHANGED <<thread, fate>>
       \/ /\ ~Joinable(w) /\ call.name = "destroy"
          /\ fate' = "join failed"
          /\ UNCHANGED <<thread, call>>
    /\ UNCHANGED <<alive, running, modules, indices>>

\* Mutant of IndexIn: it does not wrap.
IndexUnwrapped(list) == Len(list) - 1

\* Computed before the module is in the list: it wraps for the first.
IndexIn(list) == (Len(list) - 1) % (MaxIndex + 1)

\* Mutant of With: the module is put before the others.
WithFirst(list, m) == <<m>> \o list

With(list, m) == Append(list, m)

Insert ==
    LET w == call.wave  m == call.module IN
    /\ fate = "up" /\ call.at = "insert"
    /\ indices' = [indices EXCEPT ![w][NameOf[m]] = IndexIn(modules[w])]
    /\ modules' = [modules EXCEPT ![w] = With(@, m)]
    /\ call' = IF call.resume THEN [call EXCEPT !.at = "restart"] ELSE NoCall
    /\ UNCHANGED <<alive, running, thread, fate>>

\* Mutant of Restart: the wave stays paused.
RestartForgotten ==
    /\ fate = "up" /\ call.at = "restart"
    /\ call' = NoCall
    /\ UNCHANGED <<alive, running, thread, modules, indices, fate>>

Restart ==
    /\ fate = "up" /\ call.at = "restart"
    /\ Launch(call.wave)
    /\ call' = NoCall
    /\ UNCHANGED <<alive, modules, indices>>

\* Destroying a joinable std::thread is std::terminate, too.
Free ==
    LET w == call.wave IN
    /\ fate = "up" /\ call.at = "free"
    /\ \/ /\ ~Joinable(w)
          /\ alive' = [alive EXCEPT ![w] = FALSE]
          /\ modules' = [modules EXCEPT ![w] = <<>>]
          /\ indices' = [indices EXCEPT ![w] = NoIndices]
          /\ call' = NoCall
          /\ UNCHANGED fate
       \/ /\ Joinable(w) /\ fate' = "overwritten"
          /\ UNCHANGED <<alive, modules, indices, call>>
    /\ UNCHANGED <<running, thread>>

-----------------------------------------------------------------------------
(***************************************************************************)
(* The thread of a wave: launchWave().                                     *)
(***************************************************************************)

\* Mutant of Begun: the pass stops one module short.
BegunShort(w) == [at |-> "loop", next |-> 1, last |-> Len(modules[w]) - 1]

Begun(w) == [at |-> "loop", next |-> 1, last |-> Len(modules[w])]

CheckFlag(w) ==
    /\ fate = "up" /\ thread[w].at = "check"
    /\ thread' = [thread EXCEPT
                    ![w] = IF running[w] THEN Begun(w) ELSE Resting("ended")]
    /\ UNCHANGED <<alive, running, modules, indices, call, fate>>

\* An exception that leaves a thread's function is std::terminate.
CallModule(w) ==
    /\ fate = "up" /\ thread[w].at = "loop" /\ thread[w].next <= thread[w].last
    /\ \/ thread' = [thread EXCEPT ![w].next = @ + 1] /\ UNCHANGED fate
       \/ /\ modules[w][thread[w].next] \in MayThrow
          /\ fate' = "threw"
          /\ UNCHANGED thread
    /\ UNCHANGED <<alive, running, modules, indices, call>>

\* Mutant of PassOver: the flag ends a pass under way.
PassOverEarly(w) == thread[w].next > thread[w].last \/ ~running[w]

PassOver(w) == thread[w].next > thread[w].last

EndOfPass(w) ==
    /\ fate = "up" /\ thread[w].at = "loop" /\ PassOver(w)
    /\ thread' = [thread EXCEPT ![w] = Resting("check")]
    /\ UNCHANGED <<alive, running, modules, indices, call, fate>>

ThreadStep(w) == CheckFlag(w) \/ CallModule(w) \/ EndOfPass(w)

-----------------------------------------------------------------------------

Begin == \E w \in Waves : \/ Construct(w) \/ Execute(w) \/ Pause(w)
                          \/ Destroy(w)
                          \/ \E m \in Modules : AddModule(w, m)

Continue == Join \/ Insert \/ Restart \/ Free

Next == Begin \/ Continue \/ \E w \in Waves : ThreadStep(w)

Spec == Init /\ [][Next]_vars

(***************************************************************************)
(* The scheduler runs every thread, the controller's included: it goes on  *)
(* with a call it has begun, though it need never begin another.           *)
(***************************************************************************)
FairSpec ==
    /\ Spec
    /\ WF_vars(Continue)
    /\ \A w \in Waves : WF_vars(ThreadStep(w))

-----------------------------------------------------------------------------
(***************************************************************************)
(* Safety.                                                                 *)
(***************************************************************************)

(***************************************************************************)
(* "True if the BrainWave is running a thread, false otherwise", whenever  *)
(* the controller can ask, which is between two calls.                     *)
(***************************************************************************)
RunningMeansThread ==
    Idle => \A w \in Waves : alive[w] => (running[w] <=> Joinable(w))

(***************************************************************************)
(* pause() waits for a thread there is: its join() never throws, whichever *)
(* of addModule(), the destructor or the user called it.                   *)
(***************************************************************************)
JoinFindsThread == call.at = "join" => Joinable(call.wave)

(***************************************************************************)
(* No std::thread that is still joinable is ever assigned to or destroyed, *)
(* not even after the creation of a thread failed.                         *)
(***************************************************************************)
NoThreadAbandoned == fate # "overwritten"

(***************************************************************************)
(* modules_ has no lock: it may change only while its wave has no thread,  *)
(* or launchWave() would go on with iterators into a reallocated vector.   *)
(***************************************************************************)
ListChangesWithoutThread ==
    [][\A w \in Waves : modules'[w] # modules[w] => ~Joinable(w)]_vars

Awaited(w) == call.at = "join" /\ call.wave = w

InPass(w) == thread[w].at = "loop"

\* What a thread has left to do, if it finds its flag down.
StepsLeft(w) == CASE InPass(w)                -> thread[w].last - thread[w].next + 3
                  [] thread[w].at = "check" -> 1
                  [] OTHER                    -> 0

(***************************************************************************)
(* pause() does not wait for long: the thread it waits for gets nearer to  *)
(* its end with each of its steps, so it begins no other pass.  Nothing    *)
(* raises the flag meanwhile, whatever the call or the move that waits.    *)
(***************************************************************************)
WaitsGetShorter ==
    [][\A w \in Waves :
          Awaited(w) /\ Awaited(w)' /\ thread'[w] # thread[w]
              => StepsLeft(w)' \in 0 .. StepsLeft(w) - 1]_vars

-----------------------------------------------------------------------------
(***************************************************************************)
(* Refinement and liveness.                                                *)
(***************************************************************************)

PassesOf == INSTANCE PassLoop
            WITH Loops  <- Waves,
                 list   <- modules,
                 inPass <- [w \in Waves |-> InPass(w)],
                 done   <- [w \in Waves |-> IF InPass(w)
                                            THEN thread[w].next - 1 ELSE 0]

(***************************************************************************)
(* Whatever the controller does and whenever it does it, each wave loops   *)
(* over its modules as PassLoop says: in order, none left out, no pass cut *)
(* short, and a list that changes only between passes.                     *)
(***************************************************************************)
LoopsInPasses == PassesOf!Spec

\* The same, and under fairness a pass that has begun ends.
CompletesPasses == PassesOf!FairSpec

Turn(w, m) == InPass(w) /\ thread[w].next <= thread[w].last
                        /\ modules[w][thread[w].next] = m

(***************************************************************************)
(* Every call returns: pause() waits for the end of the pass under way,    *)
(* and the thread then sees the flag and never begins another pass.        *)
(***************************************************************************)
CallsReturn == call # NoCall ~> call = NoCall

(***************************************************************************)
(* No module of a running wave is starved by those before it in the list.  *)
(***************************************************************************)
EveryModuleHasItsTurn ==
    \A w \in Waves, m \in Modules :
        (running[w] /\ Owns(w, m)) ~> (Turn(w, m) \/ ~running[w])

(***************************************************************************)
(* "If the BrainWave is running, it will be stopped for insertion, and     *)
(* then restarted": a module added to a running wave is called, unless that *)
(* very wave is paused or destroyed first.                                 *)
(***************************************************************************)
AddedModuleIsCalled ==
    \A w \in Waves, m \in Modules :
        (call.name = "add" /\ call.wave = w /\ call.module = m /\ call.resume)
        ~> \/ Turn(w, m)
           \/ call.name \in {"pause", "destroy"} /\ call.wave = w

=============================================================================
