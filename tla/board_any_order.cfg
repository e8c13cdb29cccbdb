\* One key, so that every order of registrations on it is reached, with two
\* types and two modules.
CONSTANTS
    Keys = {k1}
    Types = {int, double}
    Modules = {m1, m2}
    Nil = Nil
SPECIFICATION Spec
SYMMETRY Symmetry
INVARIANTS
    TypeOK
    TypeCheckAtNeverThrows
    ValidatedRequestsFindRecord
    GlobalReadsSafe
    OneProviderOfGlobals
    EarlyKeysAwaitGlobal
PROPERTIES
    SettledKeysStay
    ContractSpec
CHECK_DEADLOCK TRUE
