------------------------------ MODULE PassLoop ------------------------------
(***************************************************************************)
(* What BrainWaves promise of their modules: each loops over its own list, *)
(* calling every module of it once per pass, in list order, and the list   *)
(* changes only between two passes.                                        *)
(***************************************************************************)
EXTENDS Naturals, Sequences

CONSTANTS Loops, Modules

VARIABLES
    list,    \* [Loops -> Seq(Modules)], in the order they are called
    inPass,  \* [Loops -> BOOLEAN]: a pass over the list is under way
    done     \* [Loops -> Nat]: how many modules it has called

loopVars == <<list, inPass, done>>

Init == /\ list = [l \in Loops |-> <<>>]
        /\ inPass = [l \in Loops |-> FALSE]
        /\ done = [l \in Loops |-> 0]

BeginPass(l) == /\ ~inPass[l]
                /\ inPass' = [inPass EXCEPT ![l] = TRUE]
                /\ UNCHANGED <<list, done>>

\* The module called is list[l][done[l] + 1].
CallNext(l) == /\ inPass[l] /\ done[l] < Len(list[l])
               /\ done' = [done EXCEPT ![l] = @ + 1]
               /\ UNCHANGED <<list, inPass>>

EndPass(l) == /\ inPass[l] /\ done[l] = Len(list[l])
              /\ inPass' = [inPass EXCEPT ![l] = FALSE]
              /\ done' = [done EXCEPT ![l] = 0]
              /\ UNCHANGED list

Extend(l, m) == /\ ~inPass[l]
                /\ list' = [list EXCEPT ![l] = Append(@, m)]
                /\ UNCHANGED <<inPass, done>>

Clear(l) == /\ ~inPass[l]
            /\ list' = [list EXCEPT ![l] = <<>>]
            /\ UNCHANGED <<inPass, done>>

\* One loop takes the list of another, which is left with none.
Transfer(from, to) ==
    /\ ~inPass[from] /\ ~inPass[to] /\ from # to
    /\ list' = [list EXCEPT ![to] = list[from], ![from] = <<>>]
    /\ UNCHANGED <<inPass, done>>

Next == \E l \in Loops : \/ BeginPass(l) \/ CallNext(l) \/ EndPass(l)
                         \/ \E m \in Modules : Extend(l, m)
                         \/ Clear(l)
                         \/ \E k \in Loops : Transfer(l, k)

Spec == Init /\ [][Next]_loopVars

\* A pass that has begun is always carried through.
FairSpec == Spec /\ \A l \in Loops : WF_loopVars(CallNext(l) \/ EndPass(l))

=============================================================================
