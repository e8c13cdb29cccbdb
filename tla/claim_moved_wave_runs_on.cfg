\* Two waves moved into each other, two modules, no faults.
CONSTANTS
    m1 = m1
    m2 = m2
    reader = reader
    Waves = {w1, w2}
    Modules <- MCModules
    Names <- MCNames
    NameOf <- MCNameOf
    MaxIndex = 7
    MayThrow = {}
    SpawnMayFail = FALSE
    Nil = Nil
SPECIFICATION MoveSpec
INVARIANT MovedWaveRunsOn
\* The program may stop in undefined behaviour.
CHECK_DEADLOCK FALSE
