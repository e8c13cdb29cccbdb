# A TLA+ verification of NaoFramework

NaoFramework runs *modules*, loaded from shared libraries, in loops. A
`Core::Brain` owns any number of `Core::BrainWave`s; each is a thread that calls
the modules of its list over and over. Modules exchange data through the
`Comm::Blackboard` of their wave. A `Console` turns lines and scripts into calls
of the `Brain`. Line numbers below are of the files under `src/` of the
repository root (`src/src/Brain.cpp`, `src/include/NaoFramework/...`).

## 1. Inventory

| Part | State it keeps | Operations | Talks to |
|---|---|---|---|
| `Comm::Blackboard` (`Comm/Blackboard.hpp`, `Blackboard.cpp`) | `typeCheck_` (what was said of a key: Requested, Provided or GlobalProvided, and a type), `board_` (the records: a lock and a `boost::any`) | `registerRequire`, `registerProvide`, `registerGlobalRequire`, `registerGlobalProvide`, `validateGlobals`; the accessor functions handed out | modules call it from their constructors (console thread) and, through accessors, from wave threads |
| `Core::BrainWave` (`BrainWave.cpp`) | `running_` (atomic), `wave_` (`std::thread`), `modules_`, `indices_` | `execute`, `pause`, `addModule`, the two moves, destructor; `launchWave` in its own thread | its modules; controlled by `Brain` |
| `Core::Brain` (`Brain.cpp`) | `waves_`, `blackboards_` | commands `create`, `add`, `test`; destructor | everything above; `ExternalBlackboardMap` creates waves during a registration |
| Comm adapters (`Local-`, `ExternalBlackboardAdapter`, `-Map`) | a reference | forward registrations | modules' constructors |
| `Modules::DynamicModule` (`DynamicModule.cpp`) | library handle, instance, deleter | `makeDynamicModule`, `execute`, moves, destructor | `dlopen`, `dlsym`, `dlclose`, the module's factory and deleter |
| `Log` (`LogFrontend.cpp`, `Loggable.cpp`) | the set of clients, Boost.Log sinks | `makeSink`, `removeSink`, `log`; `Loggable`'s constructor, moves, destructor | every object above is a `Loggable` |
| `Console::Console` (`Console.cpp`) | commands, its saved history; which console is current (static) | `executeCommand`, `executeFile`, `readLine`, `registerCommand`, completion | readline; the `Brain` |
| `main` (`main.cpp`) | two consoles and a `Brain` | reads a script, then lines, until `quit` | - |
| Example modules (`Reader.cpp`, `Writer.cpp`) | one accessor each | constructor, `execute` | a `LocalBlackboardAdapter` |

What is hard here:

- **Concurrency.** The console thread changes waves and boards while wave
  threads run. `running_` is an atomic; `modules_` and the two maps of a board
  have no lock, only the value of a record has. Safety rests on the order in
  which `pause()`, `join()` and everything else happen.
- **Order.** What a registration is answered depends on every registration
  before it, and the two maps of a board disagree on a key that was requested
  before it was provided. A wave calls modules in the order they were added,
  and the type check of a board relies on that.
- **Failure.** Nothing catches an exception that leaves a module or a command,
  except `std::runtime_error` in `addDynamicModule()`; most failures end the
  program. `std::thread` may fail to be created after the flag was set.
- **Shutdown.** Threads, boards, modules and libraries must go in that order.

What makes each part correct:

- *Blackboard*: it answers registrations as its class comment says; a board
  that validates serves every request; lookups of a key in one map that was
  found in the other never fail.
- *BrainWave*: its flag says whether it has a thread; no joinable thread is
  lost; the list changes only while there is no thread; passes are whole and in
  order; every call returns.
- *Brain*: what its waves read has the type asked for; boards outlive the
  threads and are cleared before the libraries go; quitting comes to an end.
- *DynamicModule*: every `dlopen` is matched by one `dlclose`, after the last
  use of the library; a module has one wrapper, which deletes it; failures are
  reported as `std::runtime_error`.
- *Log*: a client has a sink while it lives and its folder and name have none
  after.
- *Console*: a script ends at the first line that fails, and its code comes back;
  histories are not mixed; quit ends the program and nothing runs after it.

The hazards, each at its line, are in `PROJECT.json`.

## 2. Plan

| Order | Modules | State |
|---|---|---|
| 1 | `BoardKey`, `Blackboard`, the abstract `BlackboardContract`, `BlackboardClaims`, `BlackboardProofs` | checked, proved |
| 2 | `BrainWave`, the abstract `PassLoop`, `BrainWaveProofs` | checked, proved |
| 3 | `BrainWaveMove`, `BrainWaveMoveProofs` | checked, proved |
| 4 | `Brain` (composes `BrainWave` and `BoardKey`), `BrainClaims`, `BrainProofs`, `BrainReadsProofs` | checked, proved |
| 5 | `Log`, `DynamicModule` (composes it), the abstract `ModuleKeepers`, `DynamicModuleProofs` | checked, proved |
| 6 | `Console`, `ConsoleProofs`, `ConsoleScriptProofs` | checked, proved |

What could follow: the failed loads of `DynamicModule` inside the command `add`
of `Brain`, and several modules of one library there.

## 3. The modules

**`BoardKey`** is one key of a Blackboard: a pair of `typeCheck_` (or
`"Absent"`) and, if `recorded`, a record of `board_`. For each register function
it has the check that may refuse it and the entry it leaves. A `boost::any` is
the type it holds, because `any_cast` looks at nothing else; values are
abstracted away.

**`Blackboard`** has one action per register function, and one for a call of a
provider function; reading changes nothing and is the operator `ReadResult`.
`accessors` are the non-empty functions handed out, `reply` what the last
registration returned and reported. Registrations are made by the console
thread only, one at a time, and are atomic here. `early` is a history variable:
the keys that were requested before anything else was said of them.

**`BlackboardContract`** states the acceptance rules of the class comment
(`Blackboard.hpp:37-77`) over the set of accepted registrations alone. Its flag
`ordered` is true while modules load in the order the comment asks for
(`Blackboard.hpp:32-35`), and it promises nothing once it is false. `Blackboard`
implements it with `ordered` mapped to `early = {}` (`ContractSpec`): as long as
the order is kept, the answers are exactly the contract's.

**`BlackboardClaims`** holds a sentence of the header that fails once a key is
requested first.

**`BrainWave`** interleaves the controller, one thread that calls the public
functions one at a time, with the thread of every running wave. A call that
waits is split where it waits: `call.at` is `join` (waiting in `wave_.join()`),
`insert` and `restart` (the rest of `addModule()`), or `free` (members of a
destroyed wave). `thread[w]` is the position in `launchWave()`: `check` before
the test of the flag, `loop` in the range-for with its two iterators as
positions, `ended`. `indices_` wraps as a `size_t` of width `MaxIndex + 1`.
`std::terminate` is a value of `fate`, after which nothing happens.

| Code | Action |
|---|---|
| `BrainWave(name)` | `Construct` |
| `execute()` | `Execute` (`Launch`) |
| `pause()` | `Pause`, `Join` |
| `addModule()` | `AddModule`, `Join`, `Insert`, `Restart` |
| `~BrainWave()` | `Destroy`, `Join`, `Free` |
| `launchWave()` | `CheckFlag`, `CallModule`, `EndOfPass` |
| moves | `BrainWaveMove`: `MoveConstruct`, `MoveAssign`, `Copy`, `Take`, `Relaunch` |

**`BrainWaveMove`** adds the two moves, which call `pause()` on their way. A
wave may be assigned to itself: it ends paused and empty, because the vector and
the map of libstdc++ do.

**`PassLoop`** is what waves promise: whole passes, in list order, over lists
that change between passes only. BrainWave implements it with
`thread` mapped to "in a pass" and "how many called", with moves and without.

**`Brain`** extends `BrainWave` and adds the boards, the accessors each module
holds, and the command in progress (`job`). Its actions use those of
`BrainWave`, so that every wait and interleaving of a wave is there.

| Code | Action |
|---|---|
| `createWave`, `makeWave` | `CreateWave`; in a registration, `Register` |
| `addDynamicModule` | `AddDynamicModule`, `Register` (once per registration of the constructor), `Constructed`, then `BrainWave`'s `Join`, `Insert`, `Restart` |
| `execute` (command `test`) | `Test`, `LaunchWave` (once per wave) |
| `~Brain()` and the end of `main` | `Quit`, `PauseWave`, `ClearBoards`, `ClearWave`, `Exit` |
| a module's `execute()` | `CallAccess` (once per accessor), `Return` |

Modules are external. As the examples do, one registers in its constructor,
throws if an error is reported, and calls its accessors in order in every
`execute()`. What it registers is chosen freely, up to `MaxAccesses`. A
registration that changes a map while the module of some wave is about to look
a key up in it is a data race: one outcome is `fate = "undefined"`, the other
that nothing comes of it.

**`Log`** is the frontend and the four special members of a `Loggable`. A pair
of folder and name is a key; `label[o]` is the pair an object has, `clients` the
keys of `availableSinks`, and `core[k]` how many sinks of a pair Boost's core
holds: all sinks of a pair are alike, so a count is enough. `shared` is a
history variable, the pairs that two objects have had at a time. The frontend's
functions hold a mutex, so each is one step.

| Code | Operator |
|---|---|
| `Log::init()` | `LogInit` |
| `makeSink()` | `MakeSink`: looks for the bare name, files under the pair |
| `removeSink()` | `RemoveSink` |
| `Loggable`: constructor, destructor, move constructor, `operator=` | `Construct`, `Destroy`, `MoveConstruct`, `MoveAssign` |

**`DynamicModule`** extends `Log`: every wrapper, every module in it, and the
waves and boards beside them (`Other`) are Loggables. `held[d]` is the handle,
the module and the deleter of a wrapper, `refs[l]` how many handles of a library
are open, `result` how the latest load ended. A call that touches several
Loggables is split so that each step is one call of `Log`; `task.at` says how far
it has come. All of it is done by one thread.

| Code | Action |
|---|---|
| `makeDynamicModule()` | `OpenFails`, `LacksFunction`, or `CallFactory` followed by `ConstructorThrows` or `Wrap` |
| `~DynamicModule()` | `BeginDestroy`, `Drop` |
| move constructor | `MoveConstructModule` |
| `operator=` | `MoveAssignModule`, `DeleteOwn`, `Take` |

`dlopen`, `dlsym` and `dlclose` are external: a library is loaded while its
count is positive. What `dlerror()` answers after the `dlclose()`, and what
becomes of an exception whose type was in a library that is gone, are choices.

**`ModuleKeepers`** is what DynamicModules promise of the modules they hold: a
module passes from keeper to keeper whole, with its library, its last keeper
deletes it while the library is loaded, and a library is loaded exactly as long
as a keeper or the maker of a module uses it. It counts nothing and moves in one
step. `DynamicModule` implements it (`KeepsModules`) with "loaded" mapped to
`refs[l] > 0` and "the maker" to a factory that is running.

**`Console`** is the class and the loop of `main`. A line is known by what it
asks for: empty, blank, a comment, quit, a command, or a script to run. `stack`
holds the files being read, each with its next line, and `ret` the code that is
on its way to the caller; a command returns it as an `unsigned`, and `ToUnsigned`
and `ToInt` do what the conversions do, modulo `2 * (IntMax + 1)`. `current` is
`currentConsole_`, `active` what readline has, `saved` what each console put
away; `typed` and `heirs` are history variables. `main` reads from one console;
here, as the class allows, consoles come and go and any may be read next.

| Code | Action |
|---|---|
| `executeCommand`, `executeFile` | `Execute`, `RunFile`, `NextLine`, `AfterLine`, `EndOfFile` |
| `readLine`, `reserveConsole` | `ReadLine` (`ReserveConsole`), then `Type` or `EndOfInput` |
| completion | `Complete` |
| `registerCommand`, constructor, destructor | `RegisterCommand`, `Construct`, `Destroy` |
| `main` | `ConsoleInit`, `MainGoesOn` |

`MCBlackboard`, `MCBrainWave`, `MCBrainWaveMove`, `MCBrain`, `MCDynamicModule`
and `MCConsole` give the constants values. Operators introduced by a comment
"Mutant of ..." are plausible bugs, each of which some property must notice; no
specification uses them.

## 4. The runs

| Run | Instance | Shows |
|---|---|---|
| `board_any_order` | 1 key, 2 types, 2 modules, symmetric | Whatever the order of registrations: no lookup fails (`TypeCheckAtNeverThrows`), a board that validates has a record for each request (`ValidatedRequestsFindRecord`), settled keys are not undone (`SettledKeysStay`). For keys that were not requested first: global reads find a value of their type, and what is shared globally has one provider (`OneProviderOfGlobals`). For those that were: validated only with a global provider of the requested type, before which one other may have come (`EarlyKeysAwaitGlobal`). While the documented order is kept, answers as documented (`ContractSpec`) |
| `wave_live` | 2 waves, 3 modules, no faults, fair | `RunningMeansThread`; calls return, so that each `join()` finds its thread, modules have their turn, added modules are called, passes are completed; no deadlock |
| `wave_move` | 3 waves, 2 modules, one of which may throw; threads may fail to be created | Types, no joinable thread abandoned, lists moved without threads, `LoopsInPasses`; who waits for a thread waits for the rest of its pass and no other (`WaitsGetShorter`) |
| `brain_commands` | 2 waves, 2 modules of 2 accessors, 1 key, 2 types, symmetric | Types; reads succeed if keys are provided first (`OrderedReadsSucceed`), and find a record in any order when `test` starts the waves (`StartedReadsFindRecord`); `BoardsOutliveThreads`; `LibrariesOutliveValues`; `UsesWavesProperly` |
| `brain_live` | 2 waves, 2 modules of 1 accessor, 2 keys, 1 type, fair | Quitting completes; a test gets every module called |
| `dynamic_modules` | 3 wrappers, 2 modules, 3 libraries, one of them incomplete, 2 other Loggables, symmetric | Through loads that fail anywhere, moves and destructions: `HandlesBalanced`, `EachModuleHasOneWrapper`, `DeletersAreLoaded`; but for the names of the frontend's own clients, each object has a sink, pairs one object at a time has had have one and no orphans, and remembered sinks exist (`SinksMatchObjects`); libraries are loaded exactly while used (`KeepsModules`) |
| `console` | 2 consoles, 2 files with 50 pairs of contents, ints of 2 bits, fair | `ScriptsRunToFirstFailure` compares what a line does with a recursive definition of it that shares no operator with the console and says on its own what a blank line and each code comes to; `HistoryIsOwn`, `NothingAfterQuit`, `LinesDrawToAnEnd`, `LinesAreAnswered`, `QuitEndsProgram` |

Violated runs, each a sentence of the repository the code does not keep:

| Run | Sentence | What the code does |
|---|---|---|
| `claim_global_requests_read` | `Blackboard.hpp:70-71`, a request always returns some value | requests leave nothing in `board_`, where the register functions look (220, 240), so types may be mixed on a key; the board validates and a read throws `bad_any_cast` |
| `claim_clients_do_not_collide` | `Frontend.hpp:21-23`, clients of one name do not collide if their folders differ | `makeSink()` looks for the bare name, which the frontend has filed for itself, so such a client gets no sink (`LogFrontend.cpp:75-77`) |
| `claim_moved_wave_runs_on` | `BrainWave.hpp:39` and `:83`, a move pauses temporarily | the flag is copied, and `execute()` then returns at once (`BrainWave.cpp:26`, `:43`) |
| `claim_no_board_touched` | `BrainWave.hpp:62-64`, no board is touched by an insertion at run time | the module has registered, without a lock, before the wave is paused (`Brain.cpp:85-89`) |
| `claim_load_failures` | `DynamicModule.hpp:30`, whatever goes wrong a `std::runtime_error` is thrown | a constructor's exception is caught by value and thrown again as a bare `std::exception` (`DynamicModule.cpp:47`); `dlerror()` is asked after `dlclose()` (29, 36) and may answer null; `Brain.cpp:94` catches neither |

Other disagreements met on the way and kept in the models:

- *Blackboard*: a global provision after a request leaves the state Requested
  (`emplace`, 311), so that the board does not validate unless a second global
  provider comes, though `Blackboard.hpp:56-57` says the provision serves the
  request; a local provision of a requested key is accepted (`:49` says it is
  not). `EarlyKeysAwaitGlobal` is what such keys do keep. `registerGlobalRequire`
  does not pass `e` on (285), so a refusal of the wrong type leaves no error,
  though `:149` says of `e` that errors are reported to the caller.
- *BrainWave*: `addModule()` records the index of the previous module
  (`BrainWave.cpp:60`), and accepts modules of one name, which
  `ModuleInterface.hpp:14-15` says are disallowed (nothing reads `indices_`);
  the flag of a wave stays set if its thread cannot be created
  (`BrainWave.cpp:81-85`), which is why `RunningMeansThread` is checked and
  proved for the case that threads can be.
- *Log*: `makeSink()` looks a client up by its bare name and files it under
  folder and name (`LogFrontend.cpp:75-77`). Besides the clients of
  `claim_clients_do_not_collide`, a second object of the same pair gets a second
  sink, and one of the two is never removed. `OneSinkEach` leaves both out;
  `EachObjectHasSink` holds of pairs that two objects have had as well.
- *Console*: a blank line ends a script, because `executeCommand()` returns
  `true`, which is the code Error, for a line without words (`Console.cpp:87`);
  a command that returns `UINT_MAX` quits; `currentConsole_` is not cleared by
  the destructor, so the next console to be read saves a history into memory
  that was freed, or, made in the same place, goes on with the old one's;
  completion writes one byte past its array (`Console.cpp:153`).

**Bounds.** Keys do not influence each other within a Blackboard, so one key
shows every order; a second one is there in `brain_live` and
`claim_no_board_touched`, where a new record moves what is found under another
key. Two types are what a mismatch needs; registrations of a key settle after
four. Two waves give a second thread and a board read from another wave, a third
one chains of moves; two modules of two accessors give the sequence provide,
require, provide with another type, require. Three modules give `BrainWave` a
first, a middle and a last one. `MaxIndex` is small so that its wrapping is seen.
The waves' loops need no bound. `MaxSinks` bounds the orphans of one pair, which
only grow; three wrappers share a library between two and move it to a third, and
one library's module has the name of the frontend's own client. `MaxOpen` is
the process's limit of open files, which is what ends a script that runs itself:
three levels show one that is neither outermost nor innermost. `MaxTyped` bounds
the lines in the history. `IntMax = 1` gives the codes Ok, Error and Quit, and
a command that returns `UINT_MAX`.

**Fairness.** Weak fairness of each wave's thread and of the controller once it
is in a call: the operating system runs every thread, and modules and
constructors are assumed to return, as the framework assumes. The controller
need not begin another command. In `Console`, weak fairness of `Internal` only,
the steps of the program itself: commands return, and nobody has to type. No
strong fairness is used. `join()` waits for the thread, and the thread tests the
flag between passes, so nothing more is needed for `CallsReturn`.

## 5. The proofs

All are checked by TLAPS for every value of the constants. Every invariant,
action property and safety refinement the passing runs check is among them; what
is left to TLC is liveness.

`BlackboardProofs`: with the invariant `IInv` (for each key, the relation
between `typeCheck_`, `board_` and the accessors handed out for it, with `early`
to tell apart the keys that were requested first) it proves `TypeCorrect`,
`TypeCheckAtIsSafe`, `ValidatedRequestsAreSafe`, `GlobalReadsAreSafe` and
`GlobalsHaveOneProvider` (both of keys that were not requested first),
`EarlyKeysAlwaysAwaitGlobal` (of those that were, from the part `EarlyInv`),
`SettledKeysAreNeverUndone`, and the refinement `ImplementsContract`. The
properties alone are not inductive: that a global provider is sole rests on the
state being GlobalProvided, which rests on the key not having been requested
first. Assumed: `Nil \notin Types`.

`BrainWaveProofs`: `IInv` joins `CallInv` (what each stage of a call may assume
of its wave), `HandshakeInv` (a wave with a thread has its flag set, unless a
call is waiting in `join()`), `PassInv` (the iterators of a pass match the list)
and `NoThreadAbandoned`. From it: `TypeCorrect`, `ThreadsAreNeverAbandoned`,
`ListsChangeOnlyWithoutThread`, the refinement `ImplementsPassLoop`, and
`WaitsAreShort`, with faults; `FlagTellsThread` and `JoinIsSafe` (a call that
waits in `join()` finds its thread) under the further assumption that threads
can be created, for which `SpawnInv` adds the other direction. `WaitsAreShort`
is the safety half of "calls return": while a call waits in `join()`, the number
of steps its thread has left (`StepsLeft`, from the iterators of the pass) falls
with every step of that thread and is touched by nothing else. It rests on
`CallInv`: the flag of a wave that is waited for is down, so that its thread
does not begin another pass. That the thread is scheduled at all is fairness,
which `wave_live` assumes.

`BrainWaveMoveProofs`: the same with moves. `MovingInv` adds to `IInv` what each
stage of a move may assume (`MoveInv`: the wave that receives has no thread but
one the move is waiting for, and the flag it was given stays up until
`execute()` finds it). Without `MoveInv`, a list could be taken while a thread
is in it. From it: `MoveTypesAreCorrect`, `MovesAbandonNoThread`,
`ListsAreMovedWithoutThread`, `MovesImplementPassLoop`, and `MovesWaitBriefly`,
which is `WaitsAreShort` for the two waves a move may have to pause.

`BrainProofs`: `BrainInv` is `BrainTypeOK`, `IInv` of the waves, `JobInv` (a
constructor runs between two calls of its wave), `DeadInv` (a wave that is gone
has left its flag down) and `EndInv` (what each stage of the destruction has
done: after the first loop no thread is left). From it: `BrainTypesAreCorrect`,
`BoardsAlwaysOutliveThreads`, `LibrariesAlwaysOutliveValues`, and
`BrainImplementsWaves`: the Brain uses its waves as `BrainWave` says, so that the
theorems of `BrainWaveProofs` hold of a Brain's waves. `StartedReadsAreServed`
needs more, `ServedInv`: a function that was granted is one of a board that
exists, hence is asked by `test`, and the board knows its key; and what boards
said when they were asked still holds while the waves are launched one by one,
with the first of them running.

`BrainReadsProofs`: `ReadsSucceedInOrder`, the type safety of the whole program:
while no key is requested before it is provided, no read fails, for any number
of waves, modules and registrations, with modules added while waves run. Every
accessor a wave's modules hold has a place in its passes, the position of its
module and its own in that module, in lexicographic order; `PlacedInv` says that
places are unique and a new registration comes behind all others of its wave.
`ReadInv` then relates, while the Brain is live, what is said of a key to its
record (`EntryInv`), its type to the last provision in that order (`LastInv`),
each request to a provision
before it with no other type between (`NoteInv`), and the value on the board to
the last provision the thread has passed (`ValueInv`). The property alone is not
inductive: it speaks of one read, and that rests on what every earlier accessor
of the pass has written.

`DynamicModuleProofs`: `LogInv` (what `removeSink()` will look for is there:
`ClientInv`, `SharedInv`, `SinkInv`; how many sinks a pair has, one more than
will ever be removed if it was shared: `CountInv`, `OrphanInv`) is kept by the
four members of a Loggable and carried through every step; `IInv` adds, while
the program is up, what each stage of a task may assume (`TaskInv`), that a
wrapper that does not exist holds nothing (`WrapperInv`), that `refs` counts the
wrappers and the task in progress (`RefsInv`), and that every module is in one
wrapper or in the task (`OwnerInv`). The last two replace `HandlesBalanced` and
`EachModuleHasOneWrapper`, which speak of the time between calls only. From it:
`TypeCorrect`, `HandlesAreBalanced`, `ModulesHaveOneWrapper`,
`DeletersAreAlwaysLoaded`, `SinksAlwaysMatchObjects`, and the refinement
`ImplementsKeepers`. Its core is that `RefsInv`, a statement on a number of
handles, says which libraries are in use (`LoadedMeansInUse`: a cardinality is
positive when somebody is counted); the steps of a move or a load are then
matched one by one, most of them with a stutter. Assumed: the wrappers are a
finite set, and the folder of modules is theirs alone.

`ConsoleProofs`: `IInv` is `ConsoleTypeOK`, `CallInv` (between two calls nothing
is left of the one before), `HistoryInv` (whether current or put away, a
console's history is its own) and `QuitInv` (Quit is on its way to `main` or has
arrived). From it: `TypeCorrect`, `HistoriesAreOwn`, `NothingHappensAfterQuit`.
`HistoriesAreOwn` excludes what the code gets wrong: consoles made in the place
of the one read last, and what follows its destruction once another is read.
`ConversionIsIdentity` says that an `int` survives the way through `unsigned`.

`ConsoleScriptProofs`: `ScriptsRunAsDefined`, that a line does what the
recursive definition of a script says, however deep scripts run scripts. (The
definition states codes by itself; `AnswerIsAlone` shows that the console's
conversion comes to the same.) It runs on two numbers that grow smaller, the
depth that is left and the lines that are left. Its equations are not given by
the syntax; that a function with them exists is an induction, done over sets of
naturals with the library's theorem on minimal elements, because its induction
schemes cannot be instantiated. The invariant `ScriptInv` relates the stack to
what is asked for: there is a sequence of outcomes, one for each open file from
the outermost in and one for what is done so far, in which each is what becomes
of the next when the rest of its file is read; the first is the outcome of the
whole call. The property alone speaks of the end of a call only.
`LinesAlwaysDrawToAnEnd` is the safety half of `LinesAreAnswered`: what is left
to do in the open files, from the outermost in, falls lexicographically with
every step of a call, and there are at most `MaxOpen` of them.

Model-checked only: liveness, which is out of the reach of the prover
(`CallsReturn`, `EveryModuleHasItsTurn`, `AddedModuleIsCalled`, `QuitCompletes`,
`TestRunsEveryModule`, `LinesAreAnswered`, `QuitEndsProgram`, and of
`CompletesPasses` what it says beyond `LoopsInPasses`).

## 6. What is left out

- Values, log messages, output, the help and the usage errors, and what the
  formatters and filters of Boost.Log do.
- The memory model: the flag is written and read with release, acquire and
  relaxed order; the threads are synchronised by creation and join besides, and
  memory is taken to be sequentially consistent.
- Exhausted memory, and `std::system_error` of a lock.
- Assigning a `Loggable` or a `DynamicModule` to itself. `Loggable::operator=`
  returns nothing, so a move assignment may do anything in an optimised build;
  the default build comes back, and both are in `MoveAssign`.
- Names with a slash, which could make two pairs of folder and name one file.
- Registering a command again under its name, which replaces its function: the
  code a command returns is a constant here.
- In `Brain`, threads can be created (`SpawnAssumption`) and libraries load; what
  happens otherwise is in `wave_move` and `dynamic_modules`.
