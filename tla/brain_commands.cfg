\* Two waves and two modules of two registrations each, on one key of each
\* board, with two types.
CONSTANTS
    name = name
    Waves = {w1, w2}
    Modules = {m1, m2}
    Names <- MCNames
    NameOf <- MCNameOf
    MaxIndex = 3
    MayThrow = {}
    SpawnMayFail = FALSE
    Keys = {k1}
    Types = {int, double}
    MaxAccesses = 2
    Nil = Nil
SPECIFICATION BrainSpec
SYMMETRY Symmetry
INVARIANTS
    BrainTypeOK
    OrderedReadsSucceed
    StartedReadsFindRecord
    BoardsOutliveThreads
PROPERTIES
    LibrariesOutliveValues
    UsesWavesProperly
\* The program ends.
CHECK_DEADLOCK FALSE
