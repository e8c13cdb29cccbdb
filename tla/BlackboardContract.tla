------------------------- MODULE BlackboardContract -------------------------
(***************************************************************************)
(* What the class comment of Comm::Blackboard promises of registration:    *)
(* which registrations are accepted, in terms of the registrations that    *)
(* were accepted before and of nothing else.  No maps, no records.         *)
(*                                                                         *)
(* The comment supposes that no key is requested before it is provided.    *)
(* It promises nothing of a board from the moment that is not so.          *)
(***************************************************************************)

CONSTANTS Keys, Types, Modules, Nil

VARIABLES
    accepted,  \* the registrations accepted so far
    offer,     \* [Keys -> Types \cup {Nil}]: the type a key is provided with
    last,      \* the latest registration and whether it was accepted
    ordered    \* no key was requested before it was provided

contractVars == <<accepted, offer, last, ordered>>

Registration ==
    [op : {"Require", "Provide", "GlobalRequire", "GlobalProvide"},
     owner : Modules, key : Keys, type : Types]

Some(op, k) == \E a \in accepted : a.op = op /\ a.key = k

Requested(k) == Some("Require", k) \/ Some("GlobalRequire", k)

RequestedOnlyAs(t, k) ==
    \A a \in accepted :
        a.key = k /\ a.op \in {"Require", "GlobalRequire"} => a.type = t

MayRequire(r) == \/ offer[r.key] = r.type
                 \/ offer[r.key] = Nil /\ RequestedOnlyAs(r.type, r.key)

MayProvide(r) == /\ offer[r.key] = Nil => ~Requested(r.key)
                 /\ ~Some("GlobalProvide", r.key)

MayGlobalProvide(r) == /\ ~Some("Provide", r.key)
                       /\ ~Some("GlobalProvide", r.key)
                       /\ RequestedOnlyAs(r.type, r.key)

MayGlobalRequire(r) == /\ ~Some("Provide", r.key)
                       /\ Some("GlobalProvide", r.key) => offer[r.key] = r.type
                       /\ RequestedOnlyAs(r.type, r.key)

May(r) == CASE r.op = "Require"       -> MayRequire(r)
            [] r.op = "Provide"       -> MayProvide(r)
            [] r.op = "GlobalProvide" -> MayGlobalProvide(r)
            [] r.op = "GlobalRequire" -> MayGlobalRequire(r)

Init == /\ accepted = {}
        /\ offer = [k \in Keys |-> Nil]
        /\ last = [call |-> Nil, granted |-> TRUE]
        /\ ordered = TRUE

Grant(r) ==
    /\ May(r)
    /\ accepted' = accepted \cup {r}
    /\ offer' = IF r.op \in {"Provide", "GlobalProvide"}
                THEN [offer EXCEPT ![r.key] = r.type] ELSE offer
    /\ last' = [call |-> r, granted |-> TRUE]

Deny(r) ==
    /\ ~May(r)
    /\ last' = [call |-> r, granted |-> FALSE]
    /\ UNCHANGED <<accepted, offer>>

Next == \/ ordered' /\ ordered /\ \E r \in Registration : Grant(r) \/ Deny(r)
        \/ ~ordered'

Spec == Init /\ [][Next]_contractVars

=============================================================================
