\* Two waves, three modules, no faults, under fairness: the program never stops.
CONSTANTS
    m1 = m1
    m2 = m2
    m3 = m3
    reader = reader
    writer = writer
    Waves = {w1, w2}
    Modules <- MCModules
    Names <- MCNames
    NameOf <- MCNameOf
    MaxIndex = 7
    MayThrow = {}
    SpawnMayFail = FALSE
    Nil = Nil
SPECIFICATION FairSpec
INVARIANTS
    TypeOK
    RunningMeansThread
PROPERTIES
    CallsReturn
    EveryModuleHasItsTurn
    AddedModuleIsCalled
    CompletesPasses
