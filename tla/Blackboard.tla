----------------------------- MODULE Blackboard -----------------------------
(***************************************************************************)
(* A Comm::Blackboard and the modules that register with it, in any order  *)
(* a load order of theirs can produce, and that call the accessor          *)
(* functions they were given at any time.                                  *)
(*                                                                         *)
(* Registrations are made by one thread, the console's, one after the      *)
(* other, and are atomic here.  An accessor call holds the key's           *)
(* shared_mutex while it touches the value and is atomic here too; what    *)
(* interleaving does to the maps themselves is left to the composition.    *)
(* Reading leaves the board alone, so it is an operator (ReadResult) and   *)
(* not an action.                                                          *)
(***************************************************************************)
EXTENDS BoardKey

CONSTANTS Keys,     \* the keys data is registered under
          Modules   \* the modules that register

VARIABLES
    entry,      \* [Keys -> Entry]: typeCheck_ and board_
    accessors,  \* the accessor functions handed out and not empty
    reply,      \* the latest registration, and what it returned and reported
    early       \* history: keys whose first registration was a request

vars == <<entry, accessors, reply, early>>

Registration == [op : Ops, owner : Modules, key : Keys, type : Types]

NoReply == [call |-> Nil, granted |-> TRUE, error |-> "None"]

Reply == [call : Registration, granted : BOOLEAN, error : RegistrationError]

TypeOK ==
    /\ entry \in [Keys -> Entry]
    /\ accessors \subseteq Registration
    /\ reply \in Reply \cup {NoReply}
    /\ early \subseteq Keys

Init ==
    /\ entry = [k \in Keys |-> NoEntry]
    /\ accessors = {}
    /\ reply = NoReply
    /\ early = {}

-----------------------------------------------------------------------------

Accept(r, new) ==
    /\ entry' = [entry EXCEPT ![r.key] = new]
    /\ accessors' = accessors \cup {r}
    /\ reply' = [call |-> r, granted |-> TRUE, error |-> "None"]
    /\ early' = early \cup {k \in {r.key} : /\ r.op \in RequireOps
                                            /\ entry[k].state = "Absent"}

Refuse(r, check) ==
    /\ reply' = [call |-> r, granted |-> FALSE, error |-> Reported(r.op, check)]
    /\ UNCHANGED <<entry, accessors, early>>

RegisterRequire(r) ==
    LET check == RequireCheck(entry[r.key], r.type)
    IN  /\ r.op = "Require"
        /\ \/ check = "None" /\ Accept(r, Required(entry[r.key], r.type))
           \/ check # "None" /\ Refuse(r, check)

RegisterProvide(r) ==
    LET check == ProvideCheck(entry[r.key], r.type)
    IN  /\ r.op = "Provide"
        /\ \/ check = "None" /\ Accept(r, Provided(entry[r.key], r.type))
           \/ check # "None" /\ Refuse(r, check)

RegisterGlobalRequire(r) ==
    LET check == GlobalRequireCheck(entry[r.key], r.type)
    IN  /\ r.op = "GlobalRequire"
        /\ \/ check = "None" /\ Accept(r, Required(entry[r.key], r.type))
           \/ check # "None" /\ Refuse(r, check)

RegisterGlobalProvide(r) ==
    LET check == GlobalProvideCheck(entry[r.key], r.type)
    IN  /\ r.op = "GlobalProvide"
        /\ \/ check = "None" /\ Accept(r, GlobalProvided(entry[r.key], r.type))
           \/ check # "None" /\ Refuse(r, check)

\* Mutant of CallProvide: the key is stored in place of the data.
CallProvideSwapped(a) ==
    /\ a.op \in ProvideOps
    /\ entry' = [entry EXCEPT ![a.key] = Written(@, a.key)]
    /\ UNCHANGED <<accessors, reply, early>>

\* The holder of a provider function calls it.
CallProvide(a) ==
    /\ a.op \in ProvideOps
    /\ entry' = [entry EXCEPT ![a.key] = Written(@, a.type)]
    /\ UNCHANGED <<accessors, reply, early>>

Next ==
    \/ \E r \in Registration : \/ RegisterRequire(r)
                               \/ RegisterProvide(r)
                               \/ RegisterGlobalRequire(r)
                               \/ RegisterGlobalProvide(r)
    \/ \E a \in accessors : CallProvide(a)

Spec == Init /\ [][Next]_vars

-----------------------------------------------------------------------------

Of(k)          == {a \in accessors : a.key = k}
RequestsOf(k)  == {a \in Of(k) : a.op \in RequireOps}
ProvidersOf(k) == {a \in Of(k) : a.op \in ProvideOps}

ValidateGlobals == \A k \in Keys : entry[k].state # "Requested"

-----------------------------------------------------------------------------
(***************************************************************************)
(* What holds whatever order modules load in.                              *)
(***************************************************************************)

(***************************************************************************)
(* The register functions find a key in board_ and then take               *)
(* typeCheck_.at(key): the lookup must never throw.  It does not, because  *)
(* a record is only ever created after an entry of typeCheck_ is.          *)
(***************************************************************************)
TypeCheckAtNeverThrows ==
    \A k \in Keys : entry[k].recorded => entry[k].state # "Absent"

(***************************************************************************)
(* validateGlobals() is the only gate before the threads start.  Once it   *)
(* says yes, no accessor that was handed out for a request can throw       *)
(* out_of_range, because each of their keys has a record.                  *)
(***************************************************************************)
ValidatedRequestsFindRecord ==
    ValidateGlobals =>
        \A k \in Keys : RequestsOf(k) # {} => entry[k].recorded

(***************************************************************************)
(* What a key was settled as is never undone: a locally provided key stays *)
(* locally provided, a global one keeps its state and its type, and a      *)
(* requested one keeps the type of its first request until it is global.   *)
(***************************************************************************)
SettledKeysStay ==
    [][\A k \in Keys :
          LET old == entry[k]  new == entry'[k] IN
          /\ old.state = "Provided" => new.state = "Provided"
          /\ old.state = "GlobalProvided" =>
                 new.state = "GlobalProvided" /\ new.type = old.type
          /\ old.state = "Requested" =>
                 /\ new.state \in {"Requested", "GlobalProvided"}
                 /\ new.type = old.type]_vars

(***************************************************************************)
(* A key that is requested before it is provided "needs to wait for a      *)
(* global provide, or we cannot validate the arrangement": the board       *)
(* validates it only once a global provider of the type first requested    *)
(* has come.  One provider of any kind and type may come before that one,  *)
(* and none comes after it.                                                *)
(***************************************************************************)
EarlyKeysAwaitGlobal ==
    \A k \in early :
        /\ entry[k].state = "GlobalProvided" =>
               \E a \in ProvidersOf(k) : a.op = "GlobalProvide" /\ a.type = entry[k].type
        /\ \A a, b \in ProvidersOf(k) : a # b => entry[k].state = "GlobalProvided"
        /\ \A a, b, c \in ProvidersOf(k) : a = b \/ b = c \/ a = c

(***************************************************************************)
(* What holds of the keys no module requested before one provided them.    *)
(***************************************************************************)
Settled == Keys \ early

(***************************************************************************)
(* "With any possible thread scheduling such a request will return some    *)
(* value": whoever wrote last, a read of a globally provided key finds a   *)
(* value of the type it asked for, from the moment it is registered.       *)
(***************************************************************************)
GlobalReadsSafe ==
    \A k \in Settled : entry[k].state = "GlobalProvided" =>
        \A a \in RequestsOf(k) : ReadResult(entry[k], a.type) = "value"

(***************************************************************************)
(* "A single global provider is allowed on a given key, with no other      *)
(* providers, be it local or global": of a key no module requested first.  *)
(***************************************************************************)
SoleGlobalProvider ==
    \A k \in Settled : \A a, b \in ProvidersOf(k) :
        a.op = "GlobalProvide" => a = b

(***************************************************************************)
(* On such a key a request from another thread is never served by a local  *)
(* provider, whose value and type depend on how threads are scheduled.     *)
(***************************************************************************)
NoLocalProviderForGlobalRequest ==
    \A k \in Settled : \A a \in RequestsOf(k), b \in ProvidersOf(k) :
        a.op = "GlobalRequire" => b.op = "GlobalProvide"

\* Both: what waves share of a settled key comes from one provider alone.
OneProviderOfGlobals == SoleGlobalProvider /\ NoLocalProviderForGlobalRequest

-----------------------------------------------------------------------------
(***************************************************************************)
(* The refinement: a key is on offer with the type typeCheck_ holds once   *)
(* it is provided in either way.                                           *)
(***************************************************************************)
Offer == [k \in Keys |-> IF entry[k].state \in {"Provided", "GlobalProvided"}
                         THEN entry[k].type ELSE Nil]

Contract == INSTANCE BlackboardContract
            WITH accepted <- accessors,
                 offer    <- Offer,
                 last     <- [call |-> reply.call, granted |-> reply.granted],
                 ordered  <- early = {}

(***************************************************************************)
(* For as long as they load in the documented order, modules are answered  *)
(* exactly as the class comment says: accepted, and refused, in the same   *)
(* cases.                                                                  *)
(***************************************************************************)
ContractSpec == Contract!Spec

=============================================================================
