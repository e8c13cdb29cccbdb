\* Three waves, also moved into each other, and two modules, one of which may
\* throw; threads may fail to be created.
CONSTANTS
    m1 = m1
    m2 = m2
    reader = reader
    Waves = {w1, w2, w3}
    Modules <- MCModules
    Names <- MCNames
    NameOf <- MCNameOf
    MaxIndex = 7
    MayThrow = {m2}
    SpawnMayFail = TRUE
    Nil = Nil
SPECIFICATION MoveSpec
INVARIANTS
    MoveTypeOK
    NoThreadAbandoned
PROPERTIES
    ListsMoveWithoutThread
    LoopsInPasses
    WaitsGetShorter
\* The program stops when std::terminate is called.
CHECK_DEADLOCK FALSE
