\* Two waves and two modules of one registration each, on two keys of each
\* board, with one type.
CONSTANTS
    name = name
    Waves = {w1, w2}
    Modules = {m1, m2}
    Names <- MCNames
    NameOf <- MCNameOf
    MaxIndex = 3
    MayThrow = {}
    SpawnMayFail = FALSE
    Keys = {k1, k2}
    Types = {int}
    MaxAccesses = 1
    Nil = Nil
SPECIFICATION BrainFairSpec
PROPERTIES
    QuitCompletes
    TestRunsEveryModule
\* The program ends.
CHECK_DEADLOCK FALSE
