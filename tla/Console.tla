------------------------------ MODULE Console -------------------------------
(***************************************************************************)
(* Console::Console and the loop of main(): lines, scripts that run        *)
(* scripts, return codes, and the one readline history that all consoles   *)
(* take turns to use.                                                      *)
(*                                                                         *)
(* A line is known by what it asks for, and a console by its address.  The *)
(* stack holds the files being read; `ret` is a code on its way back to    *)
(* the caller, Nil while there is none.  main() reads from one console     *)
(* only; here, as the class allows, any console may be read next, and      *)
(* consoles may come and go.                                               *)
(***************************************************************************)
EXTENDS Integers, SequencesExt

CONSTANTS
    Consoles,    \* addresses of consoles
    Main,        \* the one that runs the script main() is given
    Commands,    \* names of commands, those Console itself defines included
    CommandsOf,  \* [Consoles -> SUBSET Commands]: registered before a read
    CodeOf,      \* [Commands -> unsigned]: what a command returns
    IntMax,      \* INT_MAX
    Files,       \* names of scripts
    Scripts,     \* what they may hold: a set of [Files -> Seq(Line)]
    MaxOpen,     \* how many files a process may have open
    MaxTyped,    \* bound: the lines in a history
    Nil

Quit == -1
Ok == 0
Error == 1

Unsigned == 0 .. (2 * IntMax + 1)

Signed == (-IntMax - 1) .. IntMax

\* Blank lines hold spaces, empty ones nothing at all.
Line == [kind : {"empty", "blank", "comment", "quit"}, of : {Nil}]
        \cup [kind : {"command"}, of : Commands]
        \cup [kind : {"run"}, of : Files]

ASSUME IntMaxAssumption == IntMax \in Nat \ {0}
ASSUME CommandsAssumption == /\ CommandsOf \in [Consoles -> SUBSET Commands]
                             /\ CodeOf \in [Commands -> Unsigned]
ASSUME ScriptsAssumption == Scripts \subseteq [Files -> Seq(Line)]
ASSUME ConsolesAssumption == Main \in Consoles /\ Nil \notin Consoles
ASSUME NilAssumption == Nil \notin Line \cup Signed \cup Seq(Consoles \X Nat)
ASSUME BoundsAssumption == MaxOpen \in Nat \ {0} /\ MaxTyped \in Nat

VARIABLES  \* the call in progress
    scripts,     \* what the files hold; a file that is missing reads as empty
    asked,       \* the line, or script of main(), to be executed; Nil if none
    stack,       \* the files being read for it, each with its next line
    ret,
    done         \* history: the commands called for it

VARIABLES  \* the program
    phase,       \* "script", "prompt", or "exited"
    user,        \* the console main() has called, Nil between two calls
    registered,  \* [Consoles -> SUBSET Commands]: commands_
    quit,        \* history: Quit was returned
    fate         \* "up", or "undefined" after undefined behaviour

VARIABLES  \* the histories
    alive,       \* the consoles that exist
    current,     \* currentConsole_
    active,      \* the history readline uses
    saved,       \* [Consoles -> history or Nil]: history_
    typed,       \* history: what was typed at each console
    heirs        \* history: consoles made in the place of the current one

callVars == <<asked, stack, ret, done, quit>>
historyVars == <<alive, current, active, saved, typed, heirs>>
consoleVars == <<callVars, historyVars, scripts, phase, user, registered, fate>>

Frame == [file : Files, next : Nat \ {0}]

Entry == Consoles \X (Nat \ {0})

ConsoleTypeOK ==
    /\ scripts \in Scripts
    /\ asked \in Line \cup {Nil}
    /\ stack \in Seq(Frame) /\ Len(stack) <= MaxOpen
    /\ ret \in Signed \cup {Nil}
    /\ done \in Seq(Commands)
    /\ phase \in {"script", "prompt", "exited"}
    /\ user \in Consoles \cup {Nil}
    /\ registered \in [Consoles -> SUBSET Commands]
    /\ quit \in BOOLEAN
    /\ fate \in {"up", "undefined"}
    /\ alive \subseteq Consoles
    /\ current \in Consoles \cup {Nil}
    /\ active \in Seq(Entry)
    /\ saved \in [Consoles -> Seq(Entry) \cup {Nil}]
    /\ typed \in [Consoles -> Seq(Entry)]
    /\ heirs \subseteq Consoles

Start(f) == [file |-> f, next |-> 1]

\* main() has made its consoles, and has been given a script or not.
ConsoleInit ==
    /\ scripts \in Scripts
    /\ \/ /\ phase = "prompt" /\ asked = Nil /\ user = Nil /\ stack = <<>>
       \/ \E f \in Files : /\ phase = "script" /\ user = Main
                           /\ asked = [kind |-> "run", of |-> f]
                           /\ stack = <<Start(f)>>
    /\ ret = Nil /\ done = <<>> /\ quit = FALSE /\ fate = "up"
    /\ registered = CommandsOf
    /\ alive = Consoles
    /\ current = Nil /\ active = <<>>
    /\ saved = [c \in Consoles |-> Nil]
    /\ typed = [c \in Consoles |-> <<>>]
    /\ heirs = {}

-----------------------------------------------------------------------------
(***************************************************************************)
(* executeCommand() and executeFile().                                     *)
(***************************************************************************)

\* Modulo UINT_MAX + 1, both ways.
ToUnsigned(i) == IF i < 0 THEN i + 2 * (IntMax + 1) ELSE i

ToInt(u) == IF u > IntMax THEN u - 2 * (IntMax + 1) ELSE u

\* Mutant of Converted: the unsigned of a command is compared as it is.
ConvertedOnce(i) == ToUnsigned(i)

\* A command returns an unsigned, from which its caller makes an int again.
Converted(i) == ToInt(ToUnsigned(i))

Registered(known, line) == line.kind = "command" /\ line.of \in known

\* Mutant of Answer: a blank line is passed over, as a comment is.
AnswerBlank(known, line) ==
    IF line.kind = "quit" THEN Quit
    ELSE IF line.kind \in {"blank", "empty"} THEN Ok
    ELSE IF Registered(known, line) THEN ToInt(CodeOf[line.of])
    ELSE Error

\* Of a line that does not run a script, where these commands are known.
Answer(known, line) == IF line.kind = "quit" THEN Quit
                       ELSE IF Registered(known, line) THEN ToInt(CodeOf[line.of])
                       ELSE Error

Effect(known, line) == IF Registered(known, line) THEN <<line.of>> ELSE <<>>

\* Mutant of RunFile: a file that cannot be opened is tried again.
RunFileRetrying(f, at) ==
    /\ IF Len(at) < MaxOpen THEN stack' = Append(at, Start(f)) ELSE UNCHANGED stack
    /\ UNCHANGED <<ret, done, quit>>

\* Mutant of RunFile: the file that is left is read from the same line again.
RunFileAgain(f, at) ==
    /\ \/ Len(at) < MaxOpen /\ stack' = Append(stack, Start(f)) /\ UNCHANGED ret
       \/ Len(at) = MaxOpen /\ stack' = at /\ ret' = Converted(Ok)
    /\ UNCHANGED <<done, quit>>

\* A file that cannot be opened reads as an empty one.
RunFile(f, at) ==
    /\ \/ Len(at) < MaxOpen /\ stack' = Append(at, Start(f)) /\ UNCHANGED ret
       \/ Len(at) = MaxOpen /\ stack' = at /\ ret' = Converted(Ok)
    /\ UNCHANGED <<done, quit>>

Execute(line, at) ==
    \/ line.kind = "run" /\ RunFile(line.of, at)
    \/ /\ line.kind # "run"
       /\ stack' = at
       /\ ret' = Answer(registered[user], line)
       /\ done' = done \o Effect(registered[user], line)
       /\ quit' = (quit \/ ret' = Quit)

Reading == fate = "up" /\ stack # <<>>

Top == Last(stack)

HasLine == Top.next <= Len(scripts[Top.file])

NextLine ==
    LET line == scripts[Top.file][Top.next]
        at   == [stack EXCEPT ![Len(stack)].next = @ + 1]
    IN  /\ Reading /\ ret = Nil /\ HasLine
        /\ \/ /\ line.kind = "comment"
              /\ stack' = at /\ UNCHANGED <<ret, done, quit>>
           \/ line.kind # "comment" /\ Execute(line, at)
        /\ UNCHANGED <<asked, historyVars, scripts, phase, user, registered, fate>>

\* Only main() calls executeFile() other than by the command "run".
Close(code) ==
    /\ stack' = Front(stack)
    /\ ret' = IF phase = "script" /\ Len(stack) = 1 THEN code ELSE Converted(code)

EndOfFile ==
    /\ Reading /\ ret = Nil /\ ~HasLine
    /\ Close(Ok)
    /\ UNCHANGED <<asked, done, quit, historyVars, scripts, phase, user, registered, fate>>

\* Mutant of Ends: only errors end a script.
EndsPositive == ret > Ok

Ends == ret # Ok

AfterLine ==
    /\ Reading /\ ret # Nil
    /\ \/ Ends /\ Close(ret)
       \/ ~Ends /\ ret' = Nil /\ UNCHANGED stack
    /\ UNCHANGED <<asked, done, quit, historyVars, scripts, phase, user, registered, fate>>

-----------------------------------------------------------------------------
(***************************************************************************)
(* readLine() and main(), which prints the help and goes on reading lines  *)
(* until Quit is returned.                                                 *)
(***************************************************************************)

Delivered == fate = "up" /\ stack = <<>> /\ ret # Nil

\* Mutant of Loop: the code of an error ends the loop.
LoopUntilError ==
    /\ phase' = IF ret = Error THEN "exited" ELSE "prompt"
    /\ ret' = Nil

Loop ==
    /\ phase' = IF ret = Quit THEN "exited" ELSE "prompt"
    /\ ret' = Nil

MainGoesOn ==
    /\ Delivered
    /\ Loop
    /\ asked' = Nil /\ done' = <<>> /\ user' = Nil
    /\ UNCHANGED <<stack, quit, historyVars, scripts, registered, fate>>

Idle == fate = "up" /\ phase = "prompt" /\ user = Nil

\* Mutant of SaveState: the history of the current console is not saved.
SaveStateNot == UNCHANGED saved

SaveState == saved' = [saved EXCEPT ![current] = active]

Restore(c) ==
    /\ current' = c
    /\ active' = IF saved[c] = Nil THEN <<>> ELSE saved[c]

\* The current console is saved, even if it was destroyed.
ReserveConsole(c) ==
    \/ current = c /\ UNCHANGED <<current, active, saved, fate>>
    \/ current = Nil /\ Restore(c) /\ UNCHANGED <<saved, fate>>
    \/ /\ current \in alive \ {c}
       /\ SaveState /\ Restore(c)
       /\ UNCHANGED fate
    \/ /\ current \notin alive \cup {Nil}
       /\ fate' = "undefined"
       /\ UNCHANGED <<current, active, saved>>

ReadLine(c) ==
    /\ Idle /\ c \in alive
    /\ ReserveConsole(c)
    /\ user' = c
    /\ UNCHANGED <<callVars, alive, typed, heirs, scripts, phase, registered>>

Prompting == fate = "up" /\ phase = "prompt" /\ user # Nil /\ asked = Nil

(***************************************************************************)
(* commandIterator() copies the name of a command to memory with no room   *)
(* for the null at its end.                                                *)
(***************************************************************************)
Complete ==
    /\ Prompting
    /\ registered[user] # {}
    /\ fate' = "undefined"
    /\ UNCHANGED <<callVars, historyVars, scripts, phase, user, registered>>

Type(line) ==
    LET entry == <<user, Len(typed[user]) + 1>>
    IN  /\ Prompting
        /\ \/ line.kind = "empty" /\ UNCHANGED <<active, typed>>
           \/ /\ line.kind # "empty" /\ Len(active) < MaxTyped
              /\ active' = Append(active, entry)
              /\ typed' = [typed EXCEPT ![user] = Append(@, entry)]
        /\ asked' = line
        /\ Execute(line, <<>>)
        /\ UNCHANGED <<alive, current, saved, heirs, scripts, phase, user, registered, fate>>

EndOfInput ==
    /\ Prompting
    /\ asked' = [kind |-> "quit", of |-> Nil]
    /\ ret' = Quit /\ quit' = TRUE
    /\ UNCHANGED <<stack, done, historyVars, scripts, phase, user, registered, fate>>

RegisterCommand(c, command) ==
    /\ Idle /\ c \in alive
    /\ registered' = [registered EXCEPT ![c] = @ \cup {command}]
    /\ UNCHANGED <<callVars, historyVars, scripts, phase, user, fate>>

\* The new console is given its commands at once.
Construct(c) ==
    /\ Idle /\ c \notin alive
    /\ alive' = alive \cup {c}
    /\ saved' = [saved EXCEPT ![c] = Nil]
    /\ typed' = [typed EXCEPT ![c] = <<>>]
    /\ heirs' = IF current = c THEN heirs \cup {c} ELSE heirs
    /\ registered' = [registered EXCEPT ![c] = CommandsOf[c]]
    /\ UNCHANGED <<callVars, current, active, scripts, phase, user, fate>>

Destroy(c) ==
    /\ Idle /\ c \in alive
    /\ alive' = alive \ {c}
    /\ saved' = [saved EXCEPT ![c] = Nil]
    /\ typed' = [typed EXCEPT ![c] = <<>>]
    /\ heirs' = heirs \ {c}
    /\ registered' = [registered EXCEPT ![c] = {}]
    /\ UNCHANGED <<callVars, current, active, scripts, phase, user, fate>>

Internal == NextLine \/ EndOfFile \/ AfterLine \/ MainGoesOn

External ==
    \/ Complete \/ EndOfInput
    \/ \E line \in Line : Type(line)
    \/ \E c \in Consoles : \/ ReadLine(c) \/ Construct(c) \/ Destroy(c)
                           \/ \E command \in Commands : RegisterCommand(c, command)

ConsoleNext == Internal \/ External

\* Commands return; nobody has to type anything.
ConsoleSpec == ConsoleInit /\ [][ConsoleNext]_consoleVars /\ WF_consoleVars(Internal)

-----------------------------------------------------------------------------
(***************************************************************************)
(* What a line is to do: the code it returns and the commands it calls.    *)
(* Said without the operators of the console, from what callers see.       *)
(***************************************************************************)
Result == [value : Signed, done : Seq(Commands)]

Nothing == [value |-> Ok, done |-> <<>>]

\* Two lines of a script: the first to fail is the last.
Then(r, s) == IF r.value # Ok THEN r
              ELSE [value |-> s.value, done |-> r.done \o s.done]

\* The last n lines of a script, if a line by itself does what `each` says.
Lasts(lines, each) ==
    LET last[n \in 0 .. Len(lines)] ==
            IF n = 0 THEN Nothing
            ELSE LET line == lines[Len(lines) - n + 1]
                 IN  Then(IF line.kind = "comment" THEN Nothing ELSE each[line],
                          last[n - 1])
    IN  last

\* The int whose bits are those of an unsigned.
SameBits(u) == CHOOSE i \in Signed : i = u \/ i = u - 2 * (IntMax + 1)

\* Neither a command nor a script: blank lines and unknown words are errors.
Alone(known, line) ==
    CASE line.kind = "quit" -> [value |-> Quit, done |-> <<>>]
      [] line.kind = "command" /\ line.of \in known ->
             [value |-> SameBits(CodeOf[line.of]), done |-> <<line.of>>]
      [] OTHER -> [value |-> Error, done |-> <<>>]

\* Any line, as a function of how many files can still be opened.
Outcomes(known, files) ==
    LET run[d \in 0 .. MaxOpen] == [line \in Line |->
            IF line.kind # "run" THEN Alone(known, line)
            ELSE IF d = 0 THEN Nothing
            ELSE Lasts(files[line.of], run[d - 1])[Len(files[line.of])]]
    IN  run

Outcome(c) == Outcomes(registered[c], scripts)[MaxOpen]

(***************************************************************************)
(* What is typed, and the script given to main(), runs up to the first     *)
(* line that fails, in whatever file, and its code comes back unchanged    *)
(* through all conversions; scripts that run themselves and files that     *)
(* cannot be opened included.                                              *)
(***************************************************************************)
ScriptsRunToFirstFailure ==
    Delivered => [value |-> ret, done |-> done] = Outcome(user)[asked]

(***************************************************************************)
(* Once a line has returned Quit, however deep in scripts, no command is   *)
(* called any more and nothing more is asked of the user.                  *)
(***************************************************************************)
NothingAfterQuit ==
    [][quit => done' \in {done, <<>>} /\ (user' # Nil => user' = user)]_consoleVars

(***************************************************************************)
(* At its prompt a console offers what was typed there, in order, and      *)
(* nothing from another one.  Left out are the consoles that took the      *)
(* place of the one read last, whose history they then have, and all that  *)
(* follows when the current console was destroyed and another is read.     *)
(***************************************************************************)
HistoryIsOwn ==
    fate = "up" /\ phase = "prompt" /\ user \notin heirs \cup {Nil}
        => active = typed[user]

\* What is left to do in the d-th open file; behind the last, a code to return.
Rest(d) == IF d \in 1 .. Len(stack)
           THEN Len(scripts[stack[d].file]) - stack[d].next + 2
           ELSE IF d > MaxOpen /\ ret # Nil THEN 1 ELSE 0

(***************************************************************************)
(* A script that runs itself, or two that run each other, cannot go on for *)
(* ever: with each step something less is left to do in some open file,    *)
(* and just as much in the files around it.                                *)
(***************************************************************************)
LinesDrawToAnEnd ==
    [][asked # Nil => \E d \in 1 .. MaxOpen + 1 :
                          /\ Rest(d)' \in 0 .. Rest(d) - 1
                          /\ \A i \in 1 .. d - 1 : Rest(i)' = Rest(i)]_consoleVars

\* Every line, and the script of main(), comes to its end.
LinesAreAnswered == asked # Nil ~> asked = Nil

\* Quit ends the program, wherever it was returned.
QuitEndsProgram == quit ~> phase = "exited"

=============================================================================
