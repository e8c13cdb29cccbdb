\* One wave, and two modules of one registration each, on two keys.
CONSTANTS
    name = name
    Waves = {w1}
    Modules = {m1, m2}
    Names <- MCNames
    NameOf <- MCNameOf
    MaxIndex = 3
    MayThrow = {}
    SpawnMayFail = FALSE
    Keys = {k1, k2}
    Types = {int}
    MaxAccesses = 1
    Nil = Nil
SPECIFICATION BrainSpec
SYMMETRY Symmetry
INVARIANT NoBoardTouchedAtRunTime
\* The program ends.
CHECK_DEADLOCK FALSE
