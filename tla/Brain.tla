------------------------------- MODULE Brain --------------------------------
(***************************************************************************)
(* Core::Brain: waves, each with a Blackboard of the same name, and the    *)
(* commands of the console, from the first "create" to the destruction of  *)
(* everything at "quit".                                                   *)
(*                                                                         *)
(* A BrainWave is as in module BrainWave, whose actions are used here; a   *)
(* Blackboard is a function from keys to the entries of BoardKey.  The     *)
(* modules are external.  As the examples in moduleExamples/ do, a module  *)
(* registers in its constructor, throws there if an error is reported, and *)
(* in execute() calls its accessor functions in the order it registered.   *)
(*                                                                         *)
(* The console thread makes the registrations with no lock, while waves    *)
(* that run call accessors.                                                *)
(***************************************************************************)
EXTENDS BrainWave

CONSTANTS
    Keys,        \* the keys data is registered under
    Types,       \* the C++ types modules exchange
    MaxAccesses  \* bound: the registrations a module makes

INSTANCE BoardKey

ASSUME BoundAssumption == MaxAccesses \in Nat

\* What follows when a thread cannot be created is the subject of BrainWave.
ASSUME SpawnAssumption == SpawnMayFail = FALSE

VARIABLES
    board,    \* [Waves -> [Keys -> Entry]]: blackboards_
    access,   \* [Modules -> Seq(Access)]: the functions each module was given
    step,     \* [Waves -> Nat]: how many the module being called has called
    job,      \* the command in progress
    ordered   \* history: no key was requested before it was provided

brainVars == <<vars, board, access, step, job, ordered>>

\* A function that was not granted is empty.
Access == [op : Ops, board : Waves, key : Keys, type : Types,
           granted : BOOLEAN]

(***************************************************************************)
(* "construct" is the constructor of a module, in add; "launch" the second *)
(* loop of test; "pause", "free" and "done" the destruction of the Brain,  *)
(* when the first loop, the boards and the waves are under way or behind.  *)
(***************************************************************************)
Job == [at     : {"idle", "construct", "launch", "pause", "free", "done"},
        wave   : Waves \cup {Nil},
        module : Modules \cup {Nil},
        todo   : SUBSET Waves]

Stage(at, todo) == [at |-> at, wave |-> Nil, module |-> Nil, todo |-> todo]

NoJob == Stage("idle", {})

NewBoard == [k \in Keys |-> NoEntry]

BrainTypeOK ==
    /\ TypeOK
    /\ board \in [Waves -> [Keys -> Entry]]
    /\ access \in [Modules -> Seq(Access)]
    /\ \A m \in Modules : Len(access[m]) <= MaxAccesses
    /\ step \in [Waves -> 0..MaxAccesses]
    /\ job \in Job
    /\ ordered \in BOOLEAN

BrainInit ==
    /\ Init
    /\ board = [w \in Waves |-> NewBoard]
    /\ access = [m \in Modules |-> <<>>]
    /\ step = [w \in Waves |-> 0]
    /\ job = NoJob
    /\ ordered = TRUE

Ready == Idle /\ job = NoJob

Alive == {w \in Waves : alive[w]}

-----------------------------------------------------------------------------
(***************************************************************************)
(* A wave in a call of a module, and the accessor function that is next.   *)
(***************************************************************************)
Calling(w) == thread[w].at = "loop" /\ thread[w].next <= thread[w].last

Current(w) == modules[w][thread[w].next]

InAccess(w) == Calling(w) /\ step[w] < Len(access[Current(w)])

NextAccess(w) == access[Current(w)][step[w] + 1]

(***************************************************************************)
(* A registration that adds a record to board_ changes the map that every  *)
(* accessor of the board looks its key up in; one that sets the initial    *)
(* value of a key takes no lock on it.                                     *)
(***************************************************************************)
Races(op, v, k) ==
    \E w \in Waves :
        /\ InAccess(w) /\ NextAccess(w).granted /\ NextAccess(w).board = v
        /\ \/ op \in ProvideOps /\ ~board[v][k].recorded
           \/ op = "GlobalProvide" /\ NextAccess(w).key = k

-----------------------------------------------------------------------------
(***************************************************************************)
(* The commands.                                                           *)
(***************************************************************************)

CreateWave(w) ==
    /\ Ready
    /\ Construct(w)
    /\ UNCHANGED <<board, access, step, job, ordered>>

AddDynamicModule(w, m) ==
    /\ Ready /\ alive[w] /\ \A v \in Waves : ~Owns(v, m)
    /\ job' = [at |-> "construct", wave |-> w, module |-> m, todo |-> {}]
    /\ UNCHANGED <<vars, board, access, step, ordered>>

Given(op, v, k, t, granted) ==
    access' = [access EXCEPT ![job.module] =
                 Append(@, [op |-> op, board |-> v, key |-> k, type |-> t,
                            granted |-> granted])]

(***************************************************************************)
(* One registration of the constructor.  It has its own board for the      *)
(* three local functions, and for the fourth any board by the name of its  *)
(* wave, which is created if there is none.  What a constructor throws is  *)
(* no runtime_error when it arrives in addDynamicModule(): nobody catches  *)
(* it.                                                                     *)
(***************************************************************************)
Register(op, v, k, t) ==
    LET e == board[v][k]  refusal == Refusal(op, e, t) IN
    /\ fate = "up" /\ job.at = "construct"
    /\ Len(access[job.module]) < MaxAccesses
    /\ op # "GlobalRequire" => v = job.wave
    /\ \/ /\ refusal = "None"
          /\ board' = [board EXCEPT ![v][k] = Registered(op, e, t)]
          /\ Given(op, v, k, t, TRUE)
          /\ UNCHANGED fate
       \/ /\ refusal # "None" /\ Reported(op, refusal) = "None"
          /\ Given(op, v, k, t, FALSE)
          /\ UNCHANGED <<board, fate>>
       \/ /\ Reported(op, refusal) # "None"
          /\ fate' = "uncaught"
          /\ UNCHANGED <<board, access>>
       \/ /\ refusal = "None" /\ Races(op, v, k)
          /\ fate' = "undefined"
          /\ UNCHANGED <<board, access>>
    /\ alive' = [alive EXCEPT ![v] = TRUE]
    /\ ordered' = (ordered /\ ~(op \in RequireOps /\ e.state = "Absent"))
    /\ UNCHANGED <<running, thread, modules, indices, call, step, job>>

\* Mutant of Constructed: the module is put in the list of a running wave.
ConstructedInPlace ==
    /\ Idle /\ job.at = "construct"
    /\ modules' = [modules EXCEPT ![job.wave] = Append(@, job.module)]
    /\ job' = NoJob
    /\ UNCHANGED <<alive, running, thread, indices, call, fate, board, access,
                   step, ordered>>

\* The module is there, and handed over to its wave.
Constructed ==
    /\ job.at = "construct"
    /\ AddModule(job.wave, job.module)
    /\ job' = NoJob
    /\ UNCHANGED <<board, access, step, ordered>>

ValidateGlobals(w) == \A k \in Keys : board[w][k].state # "Requested"

Then(at, todo) == IF todo = {} THEN NoJob ELSE Stage(at, todo)

\* Mutant of Test: the board of a wave without modules is not asked.
TestUsed ==
    /\ Ready /\ \A w \in Alive : modules[w] # <<>> => ValidateGlobals(w)
    /\ job' = Then("launch", Alive)
    /\ UNCHANGED <<vars, board, access, step, ordered>>

\* The command "test".
Test ==
    /\ Ready /\ \A w \in Alive : ValidateGlobals(w)
    /\ job' = Then("launch", Alive)
    /\ UNCHANGED <<vars, board, access, step, ordered>>

\* Mutant of LaunchWave: a wave that runs ends the loop.
LaunchFirst(w) ==
    /\ job.at = "launch" /\ w \in job.todo
    /\ Execute(w)
    /\ job' = IF running[w] THEN NoJob ELSE Then("launch", job.todo \ {w})
    /\ UNCHANGED <<board, access, step, ordered>>

LaunchWave(w) ==
    /\ job.at = "launch" /\ w \in job.todo
    /\ Execute(w)
    /\ job' = Then("launch", job.todo \ {w})
    /\ UNCHANGED <<board, access, step, ordered>>

-----------------------------------------------------------------------------
(***************************************************************************)
(* The end: "quit", an end of file, or a script that quits leave main().   *)
(***************************************************************************)

Quit ==
    /\ Ready
    /\ job' = Stage("pause", Alive)
    /\ UNCHANGED <<vars, board, access, step, ordered>>

PauseWave(w) ==
    /\ job.at = "pause" /\ w \in job.todo
    /\ Pause(w)
    /\ job' = Stage("pause", job.todo \ {w})
    /\ UNCHANGED <<board, access, step, ordered>>

\* Mutants of ClearBoards: the boards go with the first wave that is paused;
\* they are left for the destruction of the members, after the waves.
ClearBoardsEarly ==
    /\ Idle /\ job.at = "pause"
    /\ board' = [w \in Waves |-> NewBoard]
    /\ job' = Stage("free", {})
    /\ UNCHANGED <<vars, access, step, ordered>>

ClearBoardsLast ==
    /\ Idle /\ job.at = "pause" /\ job.todo = {}
    /\ job' = Stage("free", {})
    /\ UNCHANGED <<vars, board, access, step, ordered>>

ClearBoards ==
    /\ Idle /\ job.at = "pause" /\ job.todo = {}
    /\ board' = [w \in Waves |-> NewBoard]
    /\ job' = Stage("free", {})
    /\ UNCHANGED <<vars, access, step, ordered>>

\* The modules go with their wave, and their libraries with them.
ClearWave(w) ==
    /\ job.at = "free"
    /\ Destroy(w)
    /\ UNCHANGED <<board, access, step, job, ordered>>

Exit ==
    /\ Idle /\ job.at = "free" /\ Alive = {}
    /\ job' = Stage("done", {})
    /\ UNCHANGED <<vars, board, access, step, ordered>>

-----------------------------------------------------------------------------
(***************************************************************************)
(* The threads.  A call of an accessor holds the lock of its key and is    *)
(* atomic.  An empty function throws when called, and so does a read that  *)
(* finds no record, or a value of another type.  A board that is gone is   *)
(* never called: see BoardsOutliveThreads.                                 *)
(***************************************************************************)
CallAccess(w) ==
    /\ fate = "up" /\ InAccess(w)
    /\ LET a == NextAccess(w)  e == board[a.board][a.key] IN
       \/ /\ a.granted /\ a.op \in RequireOps
          /\ ReadResult(e, a.type) = "value"
          /\ step' = [step EXCEPT ![w] = @ + 1]
          /\ UNCHANGED <<board, fate>>
       \/ /\ a.granted /\ a.op \in RequireOps
          /\ ReadResult(e, a.type) # "value"
          /\ fate' = "misread"
          /\ UNCHANGED <<board, step>>
       \/ /\ a.granted /\ a.op \in ProvideOps
          /\ board' = [board EXCEPT ![a.board][a.key] = Written(e, a.type)]
          /\ step' = [step EXCEPT ![w] = @ + 1]
          /\ UNCHANGED fate
       \/ /\ ~a.granted
          /\ fate' = "threw"
          /\ UNCHANGED <<board, step>>
    /\ UNCHANGED <<alive, running, thread, modules, indices, call, access, job,
                   ordered>>

Return(w) ==
    /\ Calling(w) /\ ~InAccess(w)
    /\ CallModule(w)
    /\ step' = [step EXCEPT ![w] = 0]
    /\ UNCHANGED <<board, access, job, ordered>>

WaveStep(w) ==
    \/ CallAccess(w) \/ Return(w)
    \/ /\ CheckFlag(w) \/ EndOfPass(w)
       /\ UNCHANGED <<board, access, step, job, ordered>>

-----------------------------------------------------------------------------

BeginCommand ==
    \/ \E w \in Waves : \/ CreateWave(w)
                        \/ \E m \in Modules : AddDynamicModule(w, m)
    \/ Test \/ Quit

Registering == \E op \in Ops, v \in Waves, k \in Keys, t \in Types :
                   Register(op, v, k, t)

Finish ==
    \/ Continue /\ UNCHANGED <<board, access, step, job, ordered>>
    \/ Constructed \/ ClearBoards \/ Exit
    \/ \E w \in Waves : LaunchWave(w) \/ PauseWave(w) \/ ClearWave(w)

BrainNext == BeginCommand \/ Registering \/ Finish
             \/ \E w \in Waves : WaveStep(w)

BrainSpec == BrainInit /\ [][BrainNext]_brainVars

(***************************************************************************)
(* Constructors and execute() return, and the scheduler runs every thread. *)
(***************************************************************************)
BrainFairSpec ==
    /\ BrainSpec
    /\ WF_brainVars(Finish)
    /\ \A w \in Waves : WF_brainVars(WaveStep(w))

-----------------------------------------------------------------------------
(***************************************************************************)
(* Safety.                                                                 *)
(***************************************************************************)

(***************************************************************************)
(* "Typechecking happens in a sequential manner": if no key was requested  *)
(* before it was provided, every function that was granted finds a value   *)
(* of its type each time it is called, in whatever pass, whichever wave    *)
(* calls it, and though later modules provide the key with another type.   *)
(***************************************************************************)
OrderedReadsSucceed == ordered => fate # "misread"

(***************************************************************************)
(* "test" starts the waves only if none of their functions can miss its    *)
(* key: whatever the order of registrations was, and whether a function    *)
(* reads the board of its own wave or another's, there is a record for it  *)
(* when threads begin to run.                                              *)
(***************************************************************************)
StartedReadsFindRecord ==
    job.at = "launch" =>
        \A m \in Modules : \A i \in 1 .. Len(access[m]) :
            LET a == access[m][i]
            IN  a.granted /\ a.op \in RequireOps => board[a.board][a.key].recorded

(***************************************************************************)
(* ~Brain() pauses every wave before it clears the boards: no thread is    *)
(* left that could call an accessor of a board that is gone, its own or    *)
(* another wave's.                                                         *)
(***************************************************************************)
BoardsOutliveThreads ==
    job.at \in {"free", "done"} => \A w \in Waves : ~Joinable(w)

(***************************************************************************)
(* "... to avoid to unload shared library code which is supposed to delete *)
(* created instances residing within all Blackboards": while a board holds *)
(* a value no module is destroyed, of whichever wave.                      *)
(***************************************************************************)
LibrariesOutliveValues ==
    [][(\E w \in Waves, k \in Keys : board[w][k].value # Nil)
       => \A w \in Waves, m \in Modules : Owns(w, m) => Owns(w, m)']_brainVars

(***************************************************************************)
(* What Brain does to its waves are calls a BrainWave allows, one at a     *)
(* time, and what its modules do are calls of execute() that may throw:    *)
(* what holds of BrainWave holds here.                                     *)
(***************************************************************************)
AsWaves == INSTANCE BrainWave WITH
    MayThrow <- Modules,
    fate     <- CASE fate = "misread"                    -> "threw"
                  [] fate \in {"uncaught", "undefined"} -> "up"
                  [] OTHER                              -> fate

UsesWavesProperly == AsWaves!Spec

-----------------------------------------------------------------------------
(***************************************************************************)
(* Liveness.                                                               *)
(***************************************************************************)

(***************************************************************************)
(* Once the program is told to quit it ends, with every thread joined and  *)
(* every wave destroyed, unless a module throws in its last pass.          *)
(***************************************************************************)
QuitCompletes == job.at = "pause" ~> (job.at = "done" \/ fate # "up")

(***************************************************************************)
(* After a test that was not refused, every module of every wave is        *)
(* called, unless the program is told to quit or ends.                     *)
(***************************************************************************)
TestRunsEveryModule ==
    \A w \in Waves, m \in Modules :
        (job.at = "launch" /\ Owns(w, m))
        ~> (Turn(w, m) \/ job.at \in {"pause", "free"} \/ fate # "up")

=============================================================================
