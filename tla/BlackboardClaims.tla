-------------------------- MODULE BlackboardClaims --------------------------
(***************************************************************************)
(* A sentence of Blackboard.hpp that the code does not keep once a key is  *)
(* requested before it is provided, as the property it states.  TLC finds  *)
(* a behaviour of Blackboard that breaks it.                               *)
(***************************************************************************)
EXTENDS Blackboard

(***************************************************************************)
(* A board that validates "must guarantee that with any possible thread    *)
(* scheduling such a request will return some value", of the type asked    *)
(* for, whoever wrote last.  A local provision after a global request and  *)
(* before its global provision is accepted, and may have another type.     *)
(***************************************************************************)
GlobalRequestsRead ==
    ValidateGlobals => \A a \in accessors :
        a.op = "GlobalRequire" => ReadResult(entry[a.key], a.type) = "value"

=============================================================================
