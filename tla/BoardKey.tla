------------------------------ MODULE BoardKey ------------------------------
(***************************************************************************)
(* One key of a Comm::Blackboard.                                          *)
(*                                                                         *)
(* A Blackboard keeps two maps over the same keys: typeCheck_, what the    *)
(* registrations made so far say of a key, and board_, the record that     *)
(* holds the data itself.  A key may be in the first and not in the        *)
(* second, and the four register functions look in the SECOND to decide    *)
(* what was said of it.  The operators below are the effect of each        *)
(* function on one key, so that a board is a function from keys to         *)
(* entries; they are shared by every module that contains a Blackboard.    *)
(*                                                                         *)
(* Data abstraction: a boost::any is its C++ type, or Nil when it is       *)
(* empty, because any_cast looks at nothing else.                          *)
(***************************************************************************)

CONSTANTS Types,  \* the C++ types modules exchange
          Nil     \* no type: an empty any, or a key typeCheck_ does not hold

ASSUME TypeAssumption == Nil \notin Types

TypeState == {"Requested", "Provided", "GlobalProvided"}

RegistrationError == {"None", "Requested", "LocallyProvided",
                      "GloballyProvided", "WrongType"}

RequireOps == {"Require", "GlobalRequire"}
ProvideOps == {"Provide", "GlobalProvide"}
Ops        == RequireOps \cup ProvideOps

(***************************************************************************)
(* state, type: the pair typeCheck_ holds ("Absent", Nil if it has none).  *)
(* recorded:    the key is in board_.    value: what its any holds.        *)
(***************************************************************************)
Entry == [state    : TypeState \cup {"Absent"},
          type     : Types \cup {Nil},
          recorded : BOOLEAN,
          value    : Types \cup {Nil}]

NoEntry == [state |-> "Absent", type |-> Nil, recorded |-> FALSE, value |-> Nil]

\* Mutant of Emplaced: insert_or_assign, the latest registration wins.
Reassigned(e, s, t) == [e EXCEPT !.state = s, !.type = t]

\* unordered_map::emplace on typeCheck_: a key that is there keeps its pair.
Emplaced(e, s, t) ==
    IF e.state = "Absent" THEN [e EXCEPT !.state = s, !.type = t] ELSE e

-----------------------------------------------------------------------------
(***************************************************************************)
(* Each register function is two operators: the check that refuses the     *)
(* registration, "None" when it is accepted, and the entry it leaves when  *)
(* it is accepted.  A refused registration leaves the entry alone.         *)
(***************************************************************************)

RequireCheck(e, t) == IF e.recorded /\ e.type # t THEN "WrongType" ELSE "None"

\* Mutant of Required: a request is not noted in typeCheck_.
RequiredUnnoted(e, t) == e

Required(e, t) == IF e.recorded THEN e ELSE Emplaced(e, "Requested", t)

ProvideCheck(e, t) ==
    CASE e.recorded /\ e.state = "Requested"      -> "Requested"
      [] e.recorded /\ e.state = "GlobalProvided" -> "GloballyProvided"
      [] OTHER                                    -> "None"

\* Mutant of Provided: the record is made and typeCheck_ forgotten.
ProvidedUnnoted(e, t) == [e EXCEPT !.recorded = TRUE]

Provided(e, t) ==
    LET said == IF e.recorded THEN [e EXCEPT !.type = t]
                              ELSE Emplaced(e, "Provided", t)
    IN  [said EXCEPT !.recorded = TRUE]

\* Mutant of GlobalRequireCheck: as a local request.
GlobalRequireCheckAsLocal(e, t) == RequireCheck(e, t)

GlobalRequireCheck(e, t) ==
    IF e.recorded /\ e.state = "Provided" THEN "LocallyProvided"
                                          ELSE RequireCheck(e, t)

\* Mutant of GlobalProvideCheck: local providers are let be.
GlobalProvideCheckGlobalOnly(e, t) ==
    CASE e.recorded /\ e.state = "GlobalProvided" -> "GloballyProvided"
      [] e.recorded /\ e.state = "Requested" /\ e.type # t -> "WrongType"
      [] OTHER                                    -> "None"

GlobalProvideCheck(e, t) ==
    CASE e.recorded /\ e.state = "Provided"       -> "LocallyProvided"
      [] e.recorded /\ e.state = "GlobalProvided" -> "GloballyProvided"
      [] e.recorded /\ e.state = "Requested" /\ e.type # t -> "WrongType"
      [] OTHER                                    -> "None"

\* Mutant of GlobalProvided: the initial value is not stored.
GlobalProvidedUnset(e, t) ==
    LET said == IF e.recorded THEN [e EXCEPT !.state = "GlobalProvided"]
                              ELSE Emplaced(e, "GlobalProvided", t)
    IN  [said EXCEPT !.recorded = TRUE]

\* Mutant of GlobalProvided: the state is changed in a copy of the pair.
GlobalProvidedInCopy(e, t) ==
    [Emplaced(e, "GlobalProvided", t) EXCEPT !.recorded = TRUE, !.value = t]

GlobalProvided(e, t) ==
    LET said == IF e.recorded THEN [e EXCEPT !.state = "GlobalProvided"]
                              ELSE Emplaced(e, "GlobalProvided", t)
    IN  [said EXCEPT !.recorded = TRUE, !.value = t]

-----------------------------------------------------------------------------
(***************************************************************************)
(* The error each function hands back through its pointer when the check   *)
(* says c.  registerGlobalRequire delegates to registerRequire without     *)
(* passing the pointer on, so a WrongType found there is never reported.   *)
(***************************************************************************)
Reported(op, c) == IF op = "GlobalRequire" /\ c = "WrongType" THEN "None" ELSE c

\* Of the four functions at once: the check, and the entry if it says "None".
Refusal(op, e, t) == CASE op = "Require"       -> RequireCheck(e, t)
                       [] op = "Provide"       -> ProvideCheck(e, t)
                       [] op = "GlobalRequire" -> GlobalRequireCheck(e, t)
                       [] op = "GlobalProvide" -> GlobalProvideCheck(e, t)

Registered(op, e, t) == CASE op \in RequireOps      -> Required(e, t)
                          [] op = "Provide"       -> Provided(e, t)
                          [] op = "GlobalProvide" -> GlobalProvided(e, t)

\* A call of the function made by makeProvideFunction: operator[], then assign.
Written(e, t) == [e EXCEPT !.recorded = TRUE, !.value = t]

\* A call of the function made by makeRequireFunction: at(), then any_cast.
ReadResult(e, t) ==
    CASE ~e.recorded              -> "out_of_range"
      [] e.recorded /\ e.value # t -> "bad_any_cast"
      [] OTHER                    -> "value"

=============================================================================
