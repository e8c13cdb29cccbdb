\* Two consoles, two scripts of up to two lines, three files open at most.
CONSTANTS
    c = c
    b = b
    f = f
    g = g
    Consoles = {c, b}
    Main = c
    Commands = {"test", "usage", "huge"}
    CommandsOf <- MCCommandsOf
    CodeOf <- MCCodeOf
    IntMax = 1
    Files = {f, g}
    Scripts <- MCScripts
    MaxOpen = 3
    MaxTyped = 2
    Nil = Nil
SPECIFICATION ConsoleSpec
INVARIANTS
    ConsoleTypeOK
    ScriptsRunToFirstFailure
    HistoryIsOwn
PROPERTIES
    NothingAfterQuit
    LinesDrawToAnEnd
    LinesAreAnswered
    QuitEndsProgram
\* The program ends.
CHECK_DEADLOCK FALSE
