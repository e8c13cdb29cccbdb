--------------------------- MODULE DynamicModule ----------------------------
(***************************************************************************)
(* Modules::DynamicModule and makeDynamicModule(): modules that live in    *)
(* shared libraries, the handles that keep the libraries loaded, and the   *)
(* log sinks of it all.                                                    *)
(*                                                                         *)
(* A module and the wrapper around it are Loggables, as are the waves and  *)
(* the boards ("others").  Work that touches several Loggables is split    *)
(* at `task.at`, so that every step is one call of module Log.  All of it  *)
(* is done by the console's thread.  dlopen(), dlsym() and dlclose() are   *)
(* external: a library is loaded while its count of handles is positive.   *)
(***************************************************************************)
EXTENDS Log, FiniteSets

CONSTANTS
    Wrappers,    \* the DynamicModule objects
    Instances,   \* the modules that factories may create
    Libs,        \* the shared libraries that can be opened
    Incomplete,  \* those that lack the factory or the deleter
    NameOf,      \* [Libs -> Names]: what the module of a library is called
    Prefixed,    \* [Names -> Names]: "Dynamic" + name
    Modules,     \* the folder "Modules"
    OtherKey     \* the pairs of waves and boards

ASSUME ObjectsAssumption == /\ Wrappers \cup Instances \subseteq Objects
                            /\ Wrappers \cap Instances = {}
                            /\ Nil \notin Objects \cup Libs
                            /\ IsFiniteSet(Wrappers)
ASSUME LibsAssumption == Incomplete \subseteq Libs /\ NameOf \in [Libs -> Names]
ASSUME NamesAssumption == /\ Prefixed \in [Names -> Names]
                          /\ Modules \in Folders
                          /\ OtherKey \subseteq (Folders \ {Modules}) \X Names

VARIABLES
    held,    \* [Wrappers -> Held]: the three members of a DynamicModule
    refs,    \* [Libs -> Nat]: handles that were opened and not closed
    task,    \* the call in progress
    result   \* how the latest makeDynamicModule() ended

dynVars == <<logVars, fate, held, refs, task, result>>

Others == Objects \ (Wrappers \cup Instances)

Held == [dll     : Libs \cup {Nil},
         module  : Instances \cup {Nil},
         deleter : Libs \cup {Nil}]

Nothing == [dll |-> Nil, module |-> Nil, deleter |-> Nil]

(***************************************************************************)
(* "construct" is makeDynamicModule() in the factory; "drop" a destructor, *)
(* "assign" and "take" an assignment, before and after the deleter.        *)
(***************************************************************************)
Task == [at      : {"idle", "construct", "drop", "assign", "take"},
         dll     : Libs \cup {Nil},
         module  : Instances \cup {Nil},
         wrapper : Wrappers \cup {Nil},
         from    : Wrappers \cup {Nil}]

NoTask == [at |-> "idle", dll |-> Nil, module |-> Nil, wrapper |-> Nil,
           from |-> Nil]

DynTypeOK ==
    /\ LogTypeOK
    /\ fate \in {"up", "uncaught", "unloaded", "undefined"}
    /\ held \in [Wrappers -> Held]
    /\ refs \in [Libs -> Nat]
    /\ task \in Task
    /\ result \in {"none", "loaded", "runtime_error", "logic_error",
                   "exception", "other"}

DynInit ==
    /\ LogInit /\ fate = "up"
    /\ held = [d \in Wrappers |-> Nothing]
    /\ refs = [l \in Libs |-> 0]
    /\ task = NoTask
    /\ result = "none"

Free == fate = "up" /\ task = NoTask

\* Where a ModuleInterface of that name logs.
ModuleKey(name) == <<Modules, name>>

Opened(l) == [refs EXCEPT ![l] = @ + 1]

Closed(l) == [refs EXCEPT ![l] = @ - 1]

-----------------------------------------------------------------------------
(***************************************************************************)
(* makeDynamicModule().  Its caller, the command "add", catches a          *)
(* runtime_error and nothing else; any other exception ends the program.   *)
(***************************************************************************)

OpenFails ==
    /\ Free
    /\ result' = "runtime_error"
    /\ UNCHANGED <<logVars, fate, held, refs, task>>

\* Mutant of LacksFunction: the handle is not closed.
LacksFunctionOpen(l) ==
    /\ Free /\ l \in Incomplete
    /\ refs' = Opened(l)
    /\ result' = "runtime_error"
    /\ UNCHANGED <<logVars, fate, held, task>>

(***************************************************************************)
(* The handle is closed before dlerror() is asked what was wrong: it may   *)
(* answer null by then, from which no runtime_error can be made.           *)
(***************************************************************************)
LacksFunction(l) ==
    /\ Free /\ l \in Incomplete
    /\ \/ result' = "runtime_error" /\ UNCHANGED fate
       \/ result' = "logic_error" /\ fate' = "uncaught"
    /\ UNCHANGED <<logVars, held, refs, task>>

CallFactory(l, i) ==
    /\ Free /\ l \notin Incomplete
    /\ refs' = Opened(l)
    /\ Construct(i, ModuleKey(NameOf[l]))
    /\ task' = [NoTask EXCEPT !.at = "construct", !.dll = l, !.module = i]
    /\ UNCHANGED <<fate, held, result>>

(***************************************************************************)
(* The base of the module, a Loggable, is destroyed again.  A              *)
(* std::exception is caught by value and thrown again as no more than      *)
(* that; the object first thrown goes after the library, which may hold    *)
(* its type.  Anything else is not caught and the handle not closed.       *)
(***************************************************************************)
ConstructorThrows ==
    /\ fate = "up" /\ task.at = "construct"
    /\ Destroy(task.module)
    /\ \/ /\ result' = "exception" /\ refs' = Closed(task.dll)
          /\ \/ fate' = "uncaught"
             \/ refs[task.dll] = 1 /\ fate' = "undefined"
       \/ /\ result' = "other" /\ UNCHANGED refs
          /\ fate' = "uncaught"
    /\ task' = NoTask
    /\ UNCHANGED held

Wrap(d) ==
    /\ fate = "up" /\ task.at = "construct"
    /\ Construct(d, ModuleKey(Prefixed[NameOf[task.dll]]))
    /\ held' = [held EXCEPT ![d] = [dll |-> task.dll, module |-> task.module,
                                    deleter |-> task.dll]]
    /\ result' = "loaded"
    /\ task' = NoTask
    /\ UNCHANGED <<fate, refs>>

-----------------------------------------------------------------------------
(***************************************************************************)
(* The special members of a DynamicModule.                                 *)
(***************************************************************************)

(***************************************************************************)
(* The deleter is code of the library: MODULE_EXPORT makes it delete the   *)
(* module and set the pointer to null.                                     *)
(***************************************************************************)
CallDeleter(d) ==
    LET i == held[d].module IN
    \/ i = Nil /\ UNCHANGED <<logVars, held, fate>>
    \/ /\ i # Nil /\ refs[held[d].deleter] > 0
       /\ Destroy(i)
       /\ held' = [held EXCEPT ![d].module = Nil]
       /\ UNCHANGED fate
    \/ /\ i # Nil /\ refs[held[d].deleter] = 0
       /\ fate' = "unloaded"
       /\ UNCHANGED <<logVars, held>>

\* Mutant of CloseLibrary: only with the module, which is gone by then.
CloseLibraryOfModule(d) == refs' = IF held[d].module = Nil THEN refs
                                                           ELSE Closed(held[d].dll)

CloseLibrary(d) == refs' = IF held[d].dll = Nil THEN refs
                                                 ELSE Closed(held[d].dll)

BeginDestroy(d) ==
    /\ Free /\ Exists(d)
    /\ CallDeleter(d)
    /\ task' = [NoTask EXCEPT !.at = "drop", !.wrapper = d]
    /\ UNCHANGED <<refs, result>>

Drop ==
    LET d == task.wrapper IN
    /\ fate = "up" /\ task.at = "drop"
    /\ CloseLibrary(d)
    /\ Destroy(d)
    /\ held' = [held EXCEPT ![d] = Nothing]
    /\ task' = NoTask
    /\ UNCHANGED <<fate, result>>

\* Mutants of HandOver: the source keeps all it has, or the handle of the
\* library; the target keeps its deleter.
HandOverCopy(d, e) == [held EXCEPT ![d] = held[e]]

HandOverHandle(d, e) == [held EXCEPT ![d] = held[e], ![e].module = Nil]

HandOverBut(d, e) ==
    [held EXCEPT ![d] = [held[e] EXCEPT !.deleter = held[d].deleter],
                 ![e].dll = Nil, ![e].module = Nil]

HandOver(d, e) ==
    [held EXCEPT ![d] = held[e], ![e].dll = Nil, ![e].module = Nil]

MoveConstructModule(d, e) ==
    /\ Free
    /\ MoveConstruct(d, e)
    /\ held' = HandOver(d, e)
    /\ UNCHANGED <<fate, refs, task, result>>

MoveAssignModule(d, e) ==
    /\ Free
    /\ MoveAssign(d, e)
    /\ task' = [NoTask EXCEPT !.at = "assign", !.wrapper = d, !.from = e]
    /\ UNCHANGED <<held, refs, result>>

DeleteOwn ==
    /\ fate = "up" /\ task.at = "assign"
    /\ CallDeleter(task.wrapper)
    /\ task' = [task EXCEPT !.at = "take"]
    /\ UNCHANGED <<refs, result>>

Take ==
    /\ fate = "up" /\ task.at = "take"
    /\ CloseLibrary(task.wrapper)
    /\ held' = HandOver(task.wrapper, task.from)
    /\ task' = NoTask
    /\ UNCHANGED <<logVars, fate, result>>

-----------------------------------------------------------------------------
(***************************************************************************)
(* The Loggables of waves and boards.                                      *)
(***************************************************************************)

Other ==
    /\ Free
    /\ \E o \in Others :
          \/ \E k \in OtherKey : Construct(o, k) /\ UNCHANGED fate
          \/ Destroy(o) /\ UNCHANGED fate
          \/ \E p \in Others : \/ MoveConstruct(o, p) /\ UNCHANGED fate
                               \/ MoveAssign(o, p)
    /\ UNCHANGED <<held, refs, task, result>>

DynNext ==
    \/ OpenFails \/ ConstructorThrows \/ Drop \/ DeleteOwn \/ Take \/ Other
    \/ \E l \in Libs : \/ LacksFunction(l)
                       \/ \E i \in Instances : CallFactory(l, i)
    \/ \E d \in Wrappers :
          \/ Wrap(d) \/ BeginDestroy(d)
          \/ \E e \in Wrappers : MoveConstructModule(d, e) \/ MoveAssignModule(d, e)

DynSpec == DynInit /\ [][DynNext]_dynVars

-----------------------------------------------------------------------------
(***************************************************************************)
(* "This destructor deletes the underlying module, and reduces the counter *)
(* of usage of the underlying shared library by one": between two calls,   *)
(* through failed loads, moves and destructions, a library has as many     *)
(* handles as there are wrappers that hold one.                            *)
(***************************************************************************)
HoldersOf(l) == {d \in Wrappers : held[d].dll = l}

HandlesBalanced == Free => \A l \in Libs : refs[l] = Cardinality(HoldersOf(l))

(***************************************************************************)
(* Every module belongs to exactly one wrapper, which will delete it, and  *)
(* no wrapper refers to a module that was deleted.                         *)
(***************************************************************************)
EachModuleHasOneWrapper ==
    Free => \A i \in Instances :
        /\ Exists(i) <=> \E d \in Wrappers : held[d].module = i
        /\ \A d, e \in Wrappers :
               held[d].module = i /\ held[e].module = i => d = e

(***************************************************************************)
(* A module is deleted by its own library's deleter while the library is   *)
(* loaded, however many wrappers share the library.                        *)
(***************************************************************************)
DeletersAreLoaded ==
    /\ fate # "unloaded"
    /\ \A d \in Wrappers : held[d].module # Nil =>
           held[d].deleter = held[d].dll /\ held[d].dll # Nil

(***************************************************************************)
(* "If anything goes wrong, this function will throw an                    *)
(* std::runtime_error."  It may throw what "add" does not catch.           *)
(***************************************************************************)
FailsWithRuntimeError == result \in {"none", "loaded", "runtime_error"}

-----------------------------------------------------------------------------
(***************************************************************************)
(* Refinement.                                                             *)
(***************************************************************************)
ModuleOf == [d \in Wrappers |-> held[d].module]

LibraryOf == [d \in Wrappers |-> held[d].dll]

Maker == IF task.at = "construct" THEN task.dll ELSE Nil

Loaded == {l \in Libs : refs[l] > 0}

Keeping == INSTANCE ModuleKeepers
           WITH Keepers <- Wrappers,
                Modules <- Instances,
                module  <- ModuleOf,
                library <- LibraryOf,
                maker   <- Maker,
                loaded  <- Loaded,
                over    <- fate # "up"

(***************************************************************************)
(* A DynamicModule "reduces the counter of usage of the underlying shared  *)
(* library by one" when it goes: by counting alone, and through loads that *)
(* fail and moves in several steps, a library is loaded exactly as long as *)
(* a wrapper or a factory needs it, and a module passes from wrapper to    *)
(* wrapper whole, with its library.                                        *)
(***************************************************************************)
KeepsModules == Keeping!Spec

=============================================================================
