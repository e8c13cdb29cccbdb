--------------------------- MODULE ModuleKeepers ----------------------------
(***************************************************************************)
(* What DynamicModules promise of the modules and libraries they hold: a   *)
(* module passes from hand to hand whole, together with its library, and   *)
(* its last keeper deletes it; a library is loaded exactly as long as      *)
(* someone uses it, a keeper or the one who makes a module.  Who counts    *)
(* how often it was opened is left to the implementation.                  *)
(***************************************************************************)
CONSTANTS Keepers, Modules, Libs, Nil

VARIABLES
    module,   \* [Keepers -> Modules or Nil]
    library,  \* [Keepers -> Libs or Nil]: a keeper may have let go of its module
    maker,    \* the library of the module that is being made, or Nil
    loaded,   \* the libraries that are loaded
    over      \* the program has ended

keeperVars == <<module, library, maker, loaded, over>>

InUse == {l \in Libs : maker = l \/ \E h \in Keepers : library[h] = l}

Init == /\ module = [h \in Keepers |-> Nil]
        /\ library = [h \in Keepers |-> Nil]
        /\ maker = Nil
        /\ loaded = {}
        /\ over = FALSE

Make(l) == /\ maker = Nil /\ maker' = l
           /\ UNCHANGED <<module, library>>

Give(h, m) == /\ maker # Nil /\ maker' = Nil
              /\ module[h] = Nil /\ library[h] = Nil
              /\ \A g \in Keepers : module[g] # m
              /\ module' = [module EXCEPT ![h] = m]
              /\ library' = [library EXCEPT ![h] = maker]

\* The code that deletes a module is in its library.
Delete(h) == /\ module[h] # Nil /\ library[h] \in loaded
             /\ module' = [module EXCEPT ![h] = Nil]
             /\ UNCHANGED <<library, maker>>

LetGo(h) == /\ module[h] = Nil
            /\ library' = [library EXCEPT ![h] = Nil]
            /\ UNCHANGED <<module, maker>>

\* Who takes over a module has none of its own, and loses its own library.
Hand(from, to) ==
    /\ from # to /\ module[to] = Nil
    /\ module' = [module EXCEPT ![to] = module[from], ![from] = Nil]
    /\ library' = [library EXCEPT ![to] = library[from], ![from] = Nil]
    /\ UNCHANGED maker

\* A program that ends because a module could not be made may leave its library.
End == /\ over' = TRUE /\ maker' = Nil
       /\ loaded' \in {loaded, InUse'}
       /\ UNCHANGED <<module, library>>

Next == /\ ~over
        /\ \/ End
           \/ /\ over' = FALSE /\ loaded' = InUse'
              /\ \/ \E l \in Libs : Make(l)
                 \/ \E h \in Keepers : \/ Delete(h) \/ LetGo(h)
                                       \/ \E m \in Modules : Give(h, m)
                                       \/ \E g \in Keepers : Hand(g, h)

Spec == Init /\ [][Next]_keeperVars

=============================================================================
