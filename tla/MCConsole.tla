------------------------------ MODULE MCConsole -----------------------------
(***************************************************************************)
(* A small instance of Console for TLC: ints of two bits, and two files    *)
(* that may run each other and themselves.                                 *)
(***************************************************************************)
EXTENDS Console

CONSTANTS c, b, f, g

MCCodeOf == ("test" :> 0) @@ ("usage" :> 1) @@ ("huge" :> 3)

MCCommandsOf == (c :> {"test", "usage", "huge"}) @@ (b :> {"test", "huge"})

Plain(kind) == [kind |-> kind, of |-> Nil]

Calls(command) == [kind |-> "command", of |-> command]

Runs(file) == [kind |-> "run", of |-> file]

First == {Plain("comment"), Calls("test"), Calls("huge"), Runs(f), Runs(g)}

Second == {Plain("quit"), Calls("test")}

Only == {Plain("blank"), Plain("quit"), Calls("usage"), Runs(f)}

MCScripts ==
    {(f :> s) @@ (g :> t) : s \in First \X Second,
                            t \in {<<>>} \cup {<<line>> : line \in Only}}
=============================================================================
