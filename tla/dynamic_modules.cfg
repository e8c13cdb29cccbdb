\* Three wrappers, and two modules of two libraries, a third library that lacks a
\* function, and two waves.
CONSTANTS
    d1 = d1
    d2 = d2
    d3 = d3
    i1 = i1
    i2 = i2
    w1 = w1
    w2 = w2
    reader = reader
    dynReader = dynReader
    dynLog = dynLog
    a = a
    b = b
    c = c
    BrainWave = BrainWave
    Objects <- MCObjects
    Folders = {BrainWave, Modules}
    Names <- MCNames
    OwnNames <- MCOwnNames
    MaxSinks = 3
    Nil = Nil
    Wrappers <- MCWrappers
    Instances <- MCInstances
    Libs = {a, b, c}
    Incomplete = {c}
    NameOf <- MCNameOf
    Prefixed <- MCPrefixed
    Modules = Modules
    OtherKey <- MCOtherKey
SPECIFICATION DynSpec
SYMMETRY Symmetry
INVARIANTS
    DynTypeOK
    HandlesBalanced
    EachModuleHasOneWrapper
    DeletersAreLoaded
    SinksMatchObjects
PROPERTIES
    KeepsModules
\* The program stops when an exception is not caught.
CHECK_DEADLOCK FALSE
