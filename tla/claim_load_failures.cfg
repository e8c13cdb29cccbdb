\* DynamicModule.hpp:30, whatever goes wrong a std::runtime_error is thrown.
CONSTANTS
    d1 = d1
    d2 = d2
    d3 = d3
    i1 = i1
    i2 = i2
    w1 = w1
    w2 = w2
    reader = reader
    dynReader = dynReader
    dynLog = dynLog
    a = a
    b = b
    c = c
    BrainWave = BrainWave
    Objects <- MCObjects
    Folders = {BrainWave, Modules}
    Names <- MCNames
    OwnNames <- MCOwnNames
    MaxSinks = 3
    Nil = Nil
    Wrappers <- MCWrappers
    Instances <- MCInstances
    Libs = {a, b, c}
    Incomplete = {c}
    NameOf <- MCNameOf
    Prefixed <- MCPrefixed
    Modules = Modules
    OtherKey <- MCOtherKey
SPECIFICATION DynSpec
INVARIANT FailsWithRuntimeError
CHECK_DEADLOCK FALSE
