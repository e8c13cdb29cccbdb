\* The instance of board_any_order.
CONSTANTS
    Keys = {k1}
    Types = {int, double}
    Modules = {m1, m2}
    Nil = Nil
SPECIFICATION Spec
INVARIANT GlobalRequestsRead
