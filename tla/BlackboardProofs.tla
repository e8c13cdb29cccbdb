-------------------------- MODULE BlackboardProofs --------------------------
(***************************************************************************)
(* Proofs about Blackboard, for any sets of keys, types and modules.       *)
(***************************************************************************)
EXTENDS Blackboard, TLAPS

-----------------------------------------------------------------------------
(***************************************************************************)
(* What the register functions leave in an entry is an entry again.        *)
(***************************************************************************)
LEMMA EntryOps ==
    ASSUME NEW e \in Entry, NEW t \in Types
    PROVE  /\ Required(e, t) \in Entry
           /\ Provided(e, t) \in Entry
           /\ GlobalProvided(e, t) \in Entry
           /\ Written(e, t) \in Entry
  <1>1. Required(e, t) \in Entry
    BY DEF Required, Emplaced, Entry, TypeState
  <1>2. Provided(e, t) \in Entry
    BY DEF Provided, Emplaced, Entry, TypeState
  <1>3. GlobalProvided(e, t) \in Entry
    BY DEF GlobalProvided, Emplaced, Entry, TypeState
  <1>4. Written(e, t) \in Entry
    BY DEF Written, Entry
  <1> QED BY <1>1, <1>2, <1>3, <1>4

LEMMA ReportedIsError ==
    ASSUME NEW op, NEW c \in RegistrationError
    PROVE  Reported(op, c) \in RegistrationError
  BY DEF Reported, RegistrationError

\* The checks only ever answer with an error the enumeration has.
LEMMA ChecksAreErrors ==
    ASSUME NEW e, NEW t
    PROVE  /\ RequireCheck(e, t) \in RegistrationError
           /\ ProvideCheck(e, t) \in RegistrationError
           /\ GlobalRequireCheck(e, t) \in RegistrationError
           /\ GlobalProvideCheck(e, t) \in RegistrationError
  BY DEF RequireCheck, ProvideCheck, GlobalRequireCheck, GlobalProvideCheck,
         RegistrationError

-----------------------------------------------------------------------------
(***************************************************************************)
(* Every step of Next accepts a registration, refuses one, or writes a     *)
(* value: the three cases all the proofs below split on.                   *)
(***************************************************************************)
Accepting(r) ==
    \/ /\ r.op = "Require"
       /\ RequireCheck(entry[r.key], r.type) = "None"
       /\ Accept(r, Required(entry[r.key], r.type))
    \/ /\ r.op = "Provide"
       /\ ProvideCheck(entry[r.key], r.type) = "None"
       /\ Accept(r, Provided(entry[r.key], r.type))
    \/ /\ r.op = "GlobalRequire"
       /\ GlobalRequireCheck(entry[r.key], r.type) = "None"
       /\ Accept(r, Required(entry[r.key], r.type))
    \/ /\ r.op = "GlobalProvide"
       /\ GlobalProvideCheck(entry[r.key], r.type) = "None"
       /\ Accept(r, GlobalProvided(entry[r.key], r.type))

Refusing(r) ==
    \/ /\ r.op = "Require"
       /\ RequireCheck(entry[r.key], r.type) # "None"
       /\ Refuse(r, RequireCheck(entry[r.key], r.type))
    \/ /\ r.op = "Provide"
       /\ ProvideCheck(entry[r.key], r.type) # "None"
       /\ Refuse(r, ProvideCheck(entry[r.key], r.type))
    \/ /\ r.op = "GlobalRequire"
       /\ GlobalRequireCheck(entry[r.key], r.type) # "None"
       /\ Refuse(r, GlobalRequireCheck(entry[r.key], r.type))
    \/ /\ r.op = "GlobalProvide"
       /\ GlobalProvideCheck(entry[r.key], r.type) # "None"
       /\ Refuse(r, GlobalProvideCheck(entry[r.key], r.type))

LEMMA StepCases ==
    ASSUME [Next]_vars
    PROVE  \/ \E r \in Registration : Accepting(r)
           \/ \E r \in Registration : Refusing(r)
           \/ \E a \in accessors : CallProvide(a)
           \/ UNCHANGED vars
  BY DEF Next, RegisterRequire, RegisterProvide, RegisterGlobalRequire,
         RegisterGlobalProvide, Accepting, Refusing

-----------------------------------------------------------------------------
(***************************************************************************)
(* Type correctness of the Blackboard's two maps and of the replies.       *)
(***************************************************************************)
THEOREM TypeCorrect == Spec => []TypeOK
  <1>1. Init => TypeOK
    BY DEF Init, TypeOK, NoEntry, Entry, TypeState
  <1>2. TypeOK /\ [Next]_vars => TypeOK'
    <2> SUFFICES ASSUME TypeOK, [Next]_vars
                 PROVE  TypeOK'
      OBVIOUS
    <2>1. ASSUME NEW r \in Registration, Accepting(r)
          PROVE  TypeOK'
      <3>1. PICK new \in Entry : Accept(r, new)
        <4>1. /\ entry[r.key] \in Entry
              /\ r.type \in Types
          BY DEF TypeOK, Registration
        <4>2. /\ Required(entry[r.key], r.type) \in Entry
              /\ Provided(entry[r.key], r.type) \in Entry
              /\ GlobalProvided(entry[r.key], r.type) \in Entry
          BY <4>1, EntryOps
        <4> QED BY <2>1, <4>2 DEF Accepting
      <3>2. r.key \in Keys
        BY DEF Registration
      <3>3. entry' \in [Keys -> Entry]
        BY <3>1 DEF Accept, TypeOK
      <3>4. accessors' \subseteq Registration
        BY <3>1 DEF Accept, TypeOK
      <3>5. reply' \in Reply
        BY <3>1 DEF Accept, Reply, RegistrationError
      <3>6. early' \subseteq Keys
        BY <3>1, <3>2 DEF Accept, TypeOK
      <3> QED BY <3>3, <3>4, <3>5, <3>6 DEF TypeOK
    <2>2. ASSUME NEW r \in Registration, Refusing(r)
          PROVE  TypeOK'
      <3>1. PICK c \in RegistrationError : Refuse(r, c)
        BY <2>2, ChecksAreErrors DEF Refusing
      <3>2. reply' \in Reply
        BY <3>1, ReportedIsError DEF Refuse, Reply
      <3> QED BY <3>1, <3>2 DEF TypeOK, Refuse
    <2>3. ASSUME NEW a \in accessors, CallProvide(a)
          PROVE  TypeOK'
      <3>1. /\ a.key \in Keys
            /\ a.type \in Types
        BY DEF TypeOK, Registration
      <3>2. Written(entry[a.key], a.type) \in Entry
        BY <3>1, EntryOps DEF TypeOK
      <3>3. entry' \in [Keys -> Entry]
        BY <2>3, <3>1, <3>2 DEF CallProvide, TypeOK
      <3> QED BY <2>3, <3>3 DEF CallProvide, TypeOK
    <2>4. CASE UNCHANGED vars
      BY <2>4 DEF vars, TypeOK
    <2> QED BY <2>1, <2>2, <2>3, <2>4, StepCases
  <1> QED BY <1>1, <1>2, PTL DEF Spec

-----------------------------------------------------------------------------
(***************************************************************************)
(* The inductive invariant.  For each key it ties what typeCheck_ says to  *)
(* the record in board_ and to the accessors that were handed out.  The    *)
(* first part holds for every key, the next two for those that were not    *)
(* requested before they were provided: there, "Provided" means local      *)
(* accessors only, and "GlobalProvided" one provider and one type.  The    *)
(* last part is about the others.                                          *)
(***************************************************************************)
RecordInv(k) ==
    LET e == entry[k] IN
    /\ e.state = "Absent" => Of(k) = {} /\ ~e.recorded /\ k \notin early
    /\ e.state # "Absent" => e.type \in Types
    /\ e.state \in {"Provided", "GlobalProvided"} => e.recorded
    /\ e.state = "Requested" => k \in early
    /\ k \in early => e.state \in {"Requested", "GlobalProvided"}

LocalInv(k) ==
    (k \notin early /\ entry[k].state = "Provided") =>
        /\ \A a \in Of(k) : a.op \in {"Require", "Provide"}
        /\ \E a \in Of(k) : a.op = "Provide"

GlobalInv(k) ==
    (k \notin early /\ entry[k].state = "GlobalProvided") =>
        /\ entry[k].value = entry[k].type
        /\ \A a \in Of(k) : a.op # "Provide" /\ a.type = entry[k].type
        /\ \E a \in Of(k) : a.op = "GlobalProvide"
        /\ \A a, b \in Of(k) :
               a.op = "GlobalProvide" /\ b.op = "GlobalProvide" => a = b

\* Of a key requested first: no provider without a record, one at most while the
\* state is still Requested, and then a global one of the requested type.
EarlyInv(k) ==
    k \in early =>
        /\ ~entry[k].recorded => ProvidersOf(k) = {}
        /\ entry[k].state = "Requested" => \A a, b \in ProvidersOf(k) : a = b
        /\ entry[k].state = "GlobalProvided" =>
               /\ \E a \in ProvidersOf(k) :
                      a.op = "GlobalProvide" /\ a.type = entry[k].type
               /\ \A a, b, c \in ProvidersOf(k) : a = b \/ b = c \/ a = c

KeyInv(k) == RecordInv(k) /\ LocalInv(k) /\ GlobalInv(k) /\ EarlyInv(k)

IInv == TypeOK /\ \A k \in Keys : KeyInv(k)

\* A step that leaves a key's entry, accessors and history alone keeps KeyInv.
LEMMA KeyInvFrame ==
    ASSUME NEW k, KeyInv(k),
           entry'[k] = entry[k], Of(k)' = Of(k),
           k \in early' <=> k \in early
    PROVE  KeyInv(k)'
  BY DEF KeyInv, RecordInv, LocalInv, GlobalInv, EarlyInv, ProvidersOf

\* What accepting a registration does to its key, and to the others.
LEMMA AcceptEffect ==
    ASSUME TypeOK, NEW r \in Registration, NEW new \in Entry, Accept(r, new)
    PROVE  /\ entry'[r.key] = new
           /\ Of(r.key)' = Of(r.key) \cup {r}
           /\ r.key \in early' <=> \/ r.key \in early
                                   \/ /\ r.op \in RequireOps
                                      /\ entry[r.key].state = "Absent"
           /\ \A k \in Keys : k # r.key =>
                 /\ entry'[k] = entry[k]
                 /\ Of(k)' = Of(k)
                 /\ k \in early' <=> k \in early
  BY DEF Accept, TypeOK, Registration, Of

LEMMA AcceptKeepsInv ==
    ASSUME IInv, NEW r \in Registration, Accepting(r)
    PROVE  \A k \in Keys : KeyInv(k)'
  <1> DEFINE e == entry[r.key]
  <1>1. /\ r.key \in Keys /\ r.type \in Types /\ e \in Entry
        /\ TypeOK /\ KeyInv(r.key)
    BY DEF IInv, TypeOK, Registration
  <1>2. ASSUME NEW new \in Entry, Accept(r, new), KeyInv(r.key)'
        PROVE  \A k \in Keys : KeyInv(k)'
    <2>1. ASSUME NEW k \in Keys, k # r.key
          PROVE  KeyInv(k)'
      <3>1. /\ entry'[k] = entry[k]
            /\ Of(k)' = Of(k)
            /\ k \in early' <=> k \in early
        BY <1>1, <1>2, <2>1, AcceptEffect
      <3>2. KeyInv(k)
        BY DEF IInv
      <3> QED BY <3>1, <3>2, KeyInvFrame
    <2> QED BY <1>2, <2>1
  <1>3. CASE r.op = "Require"
    <2> DEFINE new == Required(e, r.type)
    <2>1. RequireCheck(e, r.type) = "None" /\ Accept(r, new)
      BY <1>3 DEF Accepting
    <2>2. new \in Entry
      BY <1>1, EntryOps
    <2>3. /\ entry'[r.key] = new
          /\ Of(r.key)' = Of(r.key) \cup {r}
          /\ r.key \in early' <=> r.key \in early \/ e.state = "Absent"
      BY <1>1, <1>3, <2>1, <2>2, AcceptEffect DEF RequireOps
    <2>4. ProvidersOf(r.key)' = ProvidersOf(r.key)
      BY <1>3, <2>3 DEF ProvidersOf, ProvideOps
    <2>5. EarlyInv(r.key)'
      BY <1>1, <1>3, <2>1, <2>3, <2>4
         DEF KeyInv, RecordInv, EarlyInv, Required, Emplaced, RequireCheck, ProvidersOf,
             Entry, TypeState
    <2>6. (RecordInv(r.key) /\ LocalInv(r.key) /\ GlobalInv(r.key))'
      BY <1>1, <1>3, <2>1, <2>3
         DEF KeyInv, RecordInv, LocalInv, GlobalInv, Required, Emplaced,
             RequireCheck, Entry, TypeState
    <2> QED BY <1>2, <2>1, <2>2, <2>5, <2>6 DEF KeyInv
  <1>4. CASE r.op = "Provide"
    <2> DEFINE new == Provided(e, r.type)
    <2>1. ProvideCheck(e, r.type) = "None" /\ Accept(r, new)
      BY <1>4 DEF Accepting
    <2>2. new \in Entry
      BY <1>1, EntryOps
    <2>3. /\ entry'[r.key] = new
          /\ Of(r.key)' = Of(r.key) \cup {r}
          /\ r.key \in early' <=> r.key \in early
      BY <1>1, <1>4, <2>1, <2>2, AcceptEffect DEF RequireOps
    <2>4. e.recorded => e.state = "Provided"
      BY <1>1, <2>1 DEF KeyInv, RecordInv, ProvideCheck, Entry, TypeState
    <2>5. ProvidersOf(r.key)' = ProvidersOf(r.key) \cup {r}
      BY <1>4, <2>3 DEF ProvidersOf, ProvideOps
    <2>6. EarlyInv(r.key)'
      BY <1>1, <1>4, <2>1, <2>3, <2>4, <2>5
         DEF KeyInv, RecordInv, EarlyInv, Provided, Emplaced, ProvidersOf,
             Entry, TypeState
    <2>7. (RecordInv(r.key) /\ LocalInv(r.key) /\ GlobalInv(r.key))'
      BY <1>1, <1>4, <2>3, <2>4
         DEF KeyInv, RecordInv, LocalInv, GlobalInv, Provided, Emplaced,
             Entry, TypeState
    <2> QED BY <1>2, <2>1, <2>2, <2>6, <2>7 DEF KeyInv
  <1>5. CASE r.op = "GlobalRequire"
    <2> DEFINE new == Required(e, r.type)
    <2>1. GlobalRequireCheck(e, r.type) = "None" /\ Accept(r, new)
      BY <1>5 DEF Accepting
    <2>2. new \in Entry
      BY <1>1, EntryOps
    <2>3. /\ entry'[r.key] = new
          /\ Of(r.key)' = Of(r.key) \cup {r}
          /\ r.key \in early' <=> r.key \in early \/ e.state = "Absent"
      BY <1>1, <1>5, <2>1, <2>2, AcceptEffect DEF RequireOps
    <2>4. /\ e.state # "Provided"
          /\ e.recorded => e.type = r.type
      BY <1>1, <2>1 DEF KeyInv, RecordInv, GlobalRequireCheck, RequireCheck
    <2>5. ProvidersOf(r.key)' = ProvidersOf(r.key)
      BY <1>5, <2>3 DEF ProvidersOf, ProvideOps
    <2>6. EarlyInv(r.key)'
      BY <1>1, <1>5, <2>1, <2>3, <2>4, <2>5
         DEF KeyInv, RecordInv, EarlyInv, Required, Emplaced, ProvidersOf,
             Entry, TypeState
    <2>7. (RecordInv(r.key) /\ LocalInv(r.key) /\ GlobalInv(r.key))'
      BY <1>1, <1>5, <2>3, <2>4
         DEF KeyInv, RecordInv, LocalInv, GlobalInv, Required, Emplaced,
             Entry, TypeState
    <2> QED BY <1>2, <2>1, <2>2, <2>6, <2>7 DEF KeyInv
  <1>6. CASE r.op = "GlobalProvide"
    <2> DEFINE new == GlobalProvided(e, r.type)
    <2>1. GlobalProvideCheck(e, r.type) = "None" /\ Accept(r, new)
      BY <1>6 DEF Accepting
    <2>2. new \in Entry
      BY <1>1, EntryOps
    <2>3. /\ entry'[r.key] = new
          /\ Of(r.key)' = Of(r.key) \cup {r}
          /\ r.key \in early' <=> r.key \in early
      BY <1>1, <1>6, <2>1, <2>2, AcceptEffect DEF RequireOps
    <2>4. e.state = "Absent" \/ e.state = "Requested"
      BY <1>1, <2>1 DEF KeyInv, RecordInv, GlobalProvideCheck, Entry, TypeState
    <2>5. ProvidersOf(r.key)' = ProvidersOf(r.key) \cup {r}
      BY <1>6, <2>3 DEF ProvidersOf, ProvideOps
    <2>6. EarlyInv(r.key)'
      BY <1>1, <1>6, <2>1, <2>3, <2>4, <2>5
         DEF KeyInv, RecordInv, EarlyInv, GlobalProvided, Emplaced,
             GlobalProvideCheck, ProvidersOf, Entry, TypeState
    <2>7. (RecordInv(r.key) /\ LocalInv(r.key) /\ GlobalInv(r.key))'
      BY <1>1, <1>6, <2>3, <2>4
         DEF KeyInv, RecordInv, LocalInv, GlobalInv, GlobalProvided, Emplaced,
             Entry, TypeState
    <2> QED BY <1>2, <2>1, <2>2, <2>6, <2>7 DEF KeyInv
  <1> QED BY <1>3, <1>4, <1>5, <1>6 DEF Accepting

LEMMA WriteKeepsInv ==
    ASSUME IInv, NEW a \in accessors, CallProvide(a)
    PROVE  \A k \in Keys : KeyInv(k)'
  <1>1. /\ a.key \in Keys /\ a.type \in Types /\ a \in Of(a.key)
        /\ entry[a.key] \in Entry
    BY DEF IInv, TypeOK, Registration, Of
  <1>2. ASSUME NEW k \in Keys, k # a.key
        PROVE  KeyInv(k)'
    <2>1. entry'[k] = entry[k] /\ Of(k)' = Of(k) /\ early' = early
      BY <1>2 DEF CallProvide, IInv, TypeOK, Of
    <2>2. KeyInv(k)
      BY DEF IInv
    <2> QED BY <2>1, <2>2, KeyInvFrame
  <1>3. KeyInv(a.key)'
    <2>1. /\ entry'[a.key] = Written(entry[a.key], a.type)
          /\ Of(a.key)' = Of(a.key)
          /\ early' = early
      BY <1>1 DEF CallProvide, IInv, TypeOK, Of
    <2>2. KeyInv(a.key)
      BY <1>1 DEF IInv
    <2> QED BY <1>1, <2>1, <2>2
            DEF KeyInv, RecordInv, LocalInv, GlobalInv, EarlyInv, ProvidersOf,
                Written, Entry
  <1> QED BY <1>2, <1>3

THEOREM InvariantHolds == Spec => []IInv
  <1>1. Init => IInv
    <2> SUFFICES ASSUME Init PROVE IInv
      OBVIOUS
    <2>1. TypeOK
      BY DEF Init, TypeOK, NoEntry, Entry, TypeState
    <2>2. ASSUME NEW k \in Keys PROVE KeyInv(k)
      BY DEF Init, NoEntry, KeyInv, RecordInv, LocalInv, GlobalInv, EarlyInv, Of
    <2> QED BY <2>1, <2>2 DEF IInv
  <1>2. IInv /\ TypeOK' /\ [Next]_vars => IInv'
    <2> SUFFICES ASSUME IInv, TypeOK', [Next]_vars
                 PROVE  \A k \in Keys : KeyInv(k)'
      BY DEF IInv
    <2>1. ASSUME NEW r \in Registration, Accepting(r)
          PROVE  \A k \in Keys : KeyInv(k)'
      BY <2>1, AcceptKeepsInv
    <2>2. ASSUME NEW r \in Registration, Refusing(r)
          PROVE  \A k \in Keys : KeyInv(k)'
      <3>1. UNCHANGED <<entry, accessors, early>>
        BY <2>2 DEF Refusing, Refuse
      <3> QED BY <3>1 DEF IInv, KeyInv, RecordInv, LocalInv, GlobalInv, EarlyInv,
                           ProvidersOf, Of
    <2>3. ASSUME NEW a \in accessors, CallProvide(a)
          PROVE  \A k \in Keys : KeyInv(k)'
      BY <2>3, WriteKeepsInv
    <2>4. CASE UNCHANGED vars
      BY <2>4 DEF vars, IInv, KeyInv, RecordInv, LocalInv, GlobalInv, EarlyInv,
                  ProvidersOf, Of
    <2> QED BY <2>1, <2>2, <2>3, <2>4, StepCases
  <1> QED BY <1>1, <1>2, TypeCorrect, PTL DEF Spec

-----------------------------------------------------------------------------
(***************************************************************************)
(* The invariants the runs check, for every instance.                      *)
(***************************************************************************)

(***************************************************************************)
(* typeCheck_.at(key) never throws in a register function.                 *)
(***************************************************************************)
THEOREM TypeCheckAtIsSafe == Spec => []TypeCheckAtNeverThrows
  <1>1. IInv => TypeCheckAtNeverThrows
    BY DEF IInv, KeyInv, RecordInv, TypeCheckAtNeverThrows
  <1> QED BY <1>1, InvariantHolds, PTL

(***************************************************************************)
(* A board validateGlobals() accepts has a record for every request.       *)
(***************************************************************************)
THEOREM ValidatedRequestsAreSafe == Spec => []ValidatedRequestsFindRecord
  <1>1. IInv => ValidatedRequestsFindRecord
    <2> SUFFICES ASSUME IInv, ValidateGlobals,
                        NEW k \in Keys, RequestsOf(k) # {}
                 PROVE  entry[k].recorded
      BY DEF ValidatedRequestsFindRecord
    <2>1. entry[k].state \in {"Absent", "Provided", "GlobalProvided"}
      BY DEF IInv, TypeOK, Entry, TypeState, ValidateGlobals
    <2>2. entry[k].state # "Absent"
      BY DEF IInv, KeyInv, RecordInv, RequestsOf
    <2> QED BY <2>1, <2>2 DEF IInv, KeyInv, RecordInv
  <1> QED BY <1>1, InvariantHolds, PTL

(***************************************************************************)
(* A read of a globally provided key that no module requested first always *)
(* finds a value of its type.                                              *)
(***************************************************************************)
THEOREM GlobalReadsAreSafe == Spec => []GlobalReadsSafe
  <1>1. IInv => GlobalReadsSafe
    <2> SUFFICES ASSUME IInv, NEW k \in Settled,
                        entry[k].state = "GlobalProvided",
                        NEW a \in RequestsOf(k)
                 PROVE  ReadResult(entry[k], a.type) = "value"
      BY DEF GlobalReadsSafe
    <2>1. /\ entry[k].recorded
          /\ entry[k].value = entry[k].type
          /\ a.type = entry[k].type
      BY DEF IInv, KeyInv, RecordInv, GlobalInv, Settled, RequestsOf
    <2> QED BY <2>1 DEF ReadResult
  <1> QED BY <1>1, InvariantHolds, PTL

(***************************************************************************)
(* The global provider of a settled key is its only provider.              *)
(***************************************************************************)
LEMMA GlobalProviderIsSole == Spec => []SoleGlobalProvider
  <1>1. IInv => SoleGlobalProvider
    <2> SUFFICES ASSUME IInv, NEW k \in Settled,
                        NEW a \in ProvidersOf(k), NEW b \in ProvidersOf(k),
                        a.op = "GlobalProvide"
                 PROVE  a = b
      BY DEF SoleGlobalProvider
    <2>1. KeyInv(k) /\ k \notin early /\ a \in Of(k) /\ b \in Of(k)
      BY DEF IInv, Settled, ProvidersOf
    <2>2. entry[k].state = "GlobalProvided"
      BY <2>1 DEF IInv, TypeOK, Entry, TypeState, KeyInv, RecordInv, LocalInv,
                  Settled
    <2>3. b.op = "GlobalProvide"
      BY <2>1, <2>2 DEF KeyInv, GlobalInv, ProvidersOf, ProvideOps
    <2> QED BY <2>1, <2>2, <2>3 DEF KeyInv, GlobalInv
  <1> QED BY <1>1, InvariantHolds, PTL

(***************************************************************************)
(* On such a key no request of another thread is served by a local one.    *)
(***************************************************************************)
LEMMA GlobalRequestsHaveGlobalProviders ==
    Spec => []NoLocalProviderForGlobalRequest
  <1>1. IInv => NoLocalProviderForGlobalRequest
    <2> SUFFICES ASSUME IInv, NEW k \in Settled,
                        NEW a \in RequestsOf(k), NEW b \in ProvidersOf(k),
                        a.op = "GlobalRequire"
                 PROVE  b.op = "GlobalProvide"
      BY DEF NoLocalProviderForGlobalRequest
    <2>1. KeyInv(k) /\ k \notin early /\ a \in Of(k) /\ b \in Of(k)
      BY DEF IInv, Settled, ProvidersOf, RequestsOf
    <2>2. entry[k].state = "GlobalProvided"
      BY <2>1 DEF IInv, TypeOK, Entry, TypeState, KeyInv, RecordInv, LocalInv,
                  Settled
    <2> QED BY <2>1, <2>2 DEF KeyInv, GlobalInv, ProvidersOf, ProvideOps
  <1> QED BY <1>1, InvariantHolds, PTL

(***************************************************************************)
(* What waves share of a settled key, one that no module requested before  *)
(* it was provided, has one provider, a global one, and no other.          *)
(***************************************************************************)
THEOREM GlobalsHaveOneProvider == Spec => []OneProviderOfGlobals
  <1>1. SoleGlobalProvider /\ NoLocalProviderForGlobalRequest => OneProviderOfGlobals
    BY DEF OneProviderOfGlobals
  <1> QED
    BY <1>1, GlobalProviderIsSole, GlobalRequestsHaveGlobalProviders, PTL

(***************************************************************************)
(* A key that was requested first validates only when a global provider of *)
(* the requested type has come, before which one other may have come, and  *)
(* after which none comes.                                                 *)
(***************************************************************************)
THEOREM EarlyKeysAlwaysAwaitGlobal == Spec => []EarlyKeysAwaitGlobal
  <1>1. IInv => EarlyKeysAwaitGlobal
    <2> SUFFICES ASSUME IInv, NEW k \in early
                 PROVE  /\ entry[k].state = "GlobalProvided" =>
                               \E a \in ProvidersOf(k) :
                                   a.op = "GlobalProvide" /\ a.type = entry[k].type
                        /\ \A a, b \in ProvidersOf(k) :
                               a # b => entry[k].state = "GlobalProvided"
                        /\ \A a, b, c \in ProvidersOf(k) : a = b \/ b = c \/ a = c
      BY DEF EarlyKeysAwaitGlobal
    <2>1. EarlyInv(k) /\ entry[k].state \in {"Requested", "GlobalProvided"}
      BY DEF IInv, TypeOK, KeyInv, RecordInv
    <2> QED BY <2>1 DEF EarlyInv
  <1> QED BY <1>1, InvariantHolds, PTL

-----------------------------------------------------------------------------
(***************************************************************************)
(* What a key was settled as, and with which type, is never undone.        *)
(***************************************************************************)
KeyStays(k) ==
    LET old == entry[k]  new == entry'[k] IN
    /\ old.state = "Provided" => new.state = "Provided"
    /\ old.state = "GlobalProvided" =>
           new.state = "GlobalProvided" /\ new.type = old.type
    /\ old.state = "Requested" =>
           /\ new.state \in {"Requested", "GlobalProvided"}
           /\ new.type = old.type

LEMMA UntouchedKeyStays ==
    ASSUME NEW k \in Keys, entry'[k] = entry[k]
    PROVE  KeyStays(k)
  BY DEF KeyStays

THEOREM SettledKeysAreNeverUndone == Spec => SettledKeysStay
  <1>1. IInv /\ [Next]_vars => \A k \in Keys : KeyStays(k)
    <2> SUFFICES ASSUME IInv, [Next]_vars, NEW k \in Keys
                 PROVE  KeyStays(k)
      OBVIOUS
    <2>1. entry[k] \in Entry
      BY DEF IInv, TypeOK
    <2>2. ASSUME NEW r \in Registration, Accepting(r)
          PROVE  KeyStays(k)
      <3>1. PICK new : Accept(r, new)
        BY <2>2 DEF Accepting
      <3>2. CASE r.key # k
        <4>1. entry'[k] = entry[k]
          BY <3>1, <3>2 DEF Accept, IInv, TypeOK
        <4> QED BY <4>1, UntouchedKeyStays
      <3>3. CASE r.key = k
        <4>1. CASE r.op \in RequireOps
          <5>1. entry'[k] = Required(entry[k], r.type)
            BY <2>2, <3>3, <4>1 DEF Accepting, Accept, IInv, TypeOK, RequireOps
          <5> QED BY <2>1, <5>1 DEF KeyStays, Required, Emplaced, Entry
        <4>2. CASE r.op = "Provide"
          <5>1. /\ entry'[k] = Provided(entry[k], r.type)
                /\ ProvideCheck(entry[k], r.type) = "None"
            BY <2>2, <3>3, <4>2 DEF Accepting, Accept, IInv, TypeOK
          <5>2. /\ KeyInv(k)
                /\ entry[k].recorded => entry[k].state = "Provided"
            BY <2>1, <5>1 DEF IInv, KeyInv, RecordInv, ProvideCheck, Entry,
                              TypeState
          <5> QED BY <2>1, <5>1, <5>2
                  DEF KeyStays, KeyInv, RecordInv, Provided, Emplaced, Entry
        <4>3. CASE r.op = "GlobalProvide"
          <5>1. /\ entry'[k] = GlobalProvided(entry[k], r.type)
                /\ GlobalProvideCheck(entry[k], r.type) = "None"
            BY <2>2, <3>3, <4>3 DEF Accepting, Accept, IInv, TypeOK
          <5>2. entry[k].state \in {"Absent", "Requested"}
            BY <2>1, <5>1 DEF IInv, KeyInv, RecordInv, GlobalProvideCheck,
                              Entry, TypeState
          <5> QED BY <2>1, <5>1, <5>2
                  DEF KeyStays, GlobalProvided, Emplaced, Entry
        <4> QED BY <4>1, <4>2, <4>3 DEF Registration, Ops, ProvideOps
      <3> QED BY <3>2, <3>3
    <2>3. ASSUME NEW r \in Registration, Refusing(r)
          PROVE  KeyStays(k)
      <3>1. entry' = entry
        BY <2>3 DEF Refusing, Refuse
      <3> QED BY <3>1, UntouchedKeyStays
    <2>4. ASSUME NEW a \in accessors, CallProvide(a)
          PROVE  KeyStays(k)
      <3>1. /\ entry'[k].state = entry[k].state
            /\ entry'[k].type = entry[k].type
        BY <2>1, <2>4 DEF CallProvide, Written, IInv, TypeOK, Entry
      <3> QED BY <2>1, <3>1 DEF KeyStays, Entry
    <2>5. CASE UNCHANGED vars
      BY <2>5, UntouchedKeyStays DEF vars
    <2> QED BY <2>2, <2>3, <2>4, <2>5, StepCases
  <1>2. IInv /\ [Next]_vars =>
          [\A k \in Keys :
             LET old == entry[k]  new == entry'[k] IN
             /\ old.state = "Provided" => new.state = "Provided"
             /\ old.state = "GlobalProvided" =>
                    new.state = "GlobalProvided" /\ new.type = old.type
             /\ old.state = "Requested" =>
                    /\ new.state \in {"Requested", "GlobalProvided"}
                    /\ new.type = old.type]_vars
    BY <1>1 DEF KeyStays
  <1> QED BY <1>2, InvariantHolds, PTL DEF Spec, SettledKeysStay

-----------------------------------------------------------------------------
(***************************************************************************)
(* In the documented load order the board answers as its contract says.    *)
(***************************************************************************)

\* Nothing is requested early, so every key is absent, local or global.
OrderedInv == IInv /\ early = {}

LEMMA EarlyIsNeverUndone ==
    ASSUME IInv, [Next]_vars, early' = {}
    PROVE  OrderedInv
  <1>1. early \subseteq early'
    BY StepCases DEF Accepting, Refusing, Accept, Refuse, CallProvide, vars
  <1> QED BY <1>1 DEF OrderedInv

\* The four checks say "None" exactly where the contract allows the call.
Check(r) ==
    CASE r.op = "Require"       -> RequireCheck(entry[r.key], r.type)
      [] r.op = "Provide"       -> ProvideCheck(entry[r.key], r.type)
      [] r.op = "GlobalRequire" -> GlobalRequireCheck(entry[r.key], r.type)
      [] r.op = "GlobalProvide" -> GlobalProvideCheck(entry[r.key], r.type)

LEMMA ContractRegistration == Contract!Registration = Registration
  BY DEF Contract!Registration, Registration, Ops, RequireOps, ProvideOps

LEMMA ChecksMatchContract ==
    ASSUME OrderedInv, NEW r \in Registration
    PROVE  Check(r) = "None" <=> Contract!May(r)
  <1> DEFINE k == r.key
             e == entry[k]
  <1>1. /\ k \in Keys /\ r.type \in Types /\ e \in Entry /\ KeyInv(k)
        /\ k \notin early
        /\ accessors \subseteq Registration
    BY DEF OrderedInv, IInv, TypeOK, Registration
  <1>2. e.state \in {"Absent", "Provided", "GlobalProvided"}
    BY <1>1 DEF KeyInv, RecordInv, Entry, TypeState
  <1>3. Offer[k] = IF e.state = "Absent" THEN Nil ELSE e.type
    BY <1>1, <1>2 DEF Offer
  <1>4. r.op \in {"Require", "Provide", "GlobalRequire", "GlobalProvide"}
    BY DEF Registration, Ops, RequireOps, ProvideOps
  <1>5. CASE e.state = "Absent"
    <2>1. Check(r) = "None"
      BY <1>1, <1>4, <1>5
         DEF KeyInv, RecordInv, Check, RequireCheck, ProvideCheck,
             GlobalRequireCheck, GlobalProvideCheck
    <2>2. \A a \in accessors : a.key # k
      BY <1>1, <1>5 DEF KeyInv, RecordInv, Of
    <2>3. Offer[k] = Nil
      BY <1>3, <1>5
    <2>4. Contract!May(r)
      BY <1>4, <2>2, <2>3
         DEF Contract!May, Contract!MayRequire, Contract!MayProvide,
             Contract!MayGlobalProvide, Contract!MayGlobalRequire,
             Contract!RequestedOnlyAs, Contract!Requested, Contract!Some
    <2> QED BY <2>1, <2>4
  <1>6. CASE e.state = "Provided"
    <2>1. /\ e.recorded /\ Offer[k] = e.type /\ e.type # Nil
      BY <1>1, <1>3, <1>6, TypeAssumption DEF KeyInv, RecordInv
    <2>2. Contract!Some("Provide", k) /\ ~Contract!Some("GlobalProvide", k)
      BY <1>1, <1>6 DEF KeyInv, LocalInv, Of, Contract!Some
    <2>3. CASE r.op = "Require"
      BY <1>6, <2>1, <2>3
         DEF Check, RequireCheck, Contract!May, Contract!MayRequire
    <2>4. CASE r.op = "Provide"
      BY <1>6, <2>1, <2>2, <2>4
         DEF Check, ProvideCheck, Contract!May, Contract!MayProvide
    <2>5. CASE r.op = "GlobalRequire"
      BY <1>6, <2>1, <2>2, <2>5
         DEF Check, GlobalRequireCheck, Contract!May, Contract!MayGlobalRequire
    <2>6. CASE r.op = "GlobalProvide"
      BY <1>6, <2>1, <2>2, <2>6
         DEF Check, GlobalProvideCheck, Contract!May, Contract!MayGlobalProvide
    <2> QED BY <1>4, <2>3, <2>4, <2>5, <2>6
  <1>7. CASE e.state = "GlobalProvided"
    <2>1. /\ e.recorded /\ Offer[k] = e.type /\ e.type # Nil
      BY <1>1, <1>3, <1>7, TypeAssumption DEF KeyInv, RecordInv
    <2>2. ~Contract!Some("Provide", k) /\ Contract!Some("GlobalProvide", k)
      BY <1>1, <1>7 DEF KeyInv, GlobalInv, Of, Contract!Some
    <2>3. CASE r.op = "Require"
      BY <1>7, <2>1, <2>3
         DEF Check, RequireCheck, Contract!May, Contract!MayRequire
    <2>4. CASE r.op = "Provide"
      BY <1>7, <2>1, <2>2, <2>4
         DEF Check, ProvideCheck, Contract!May, Contract!MayProvide
    <2>5. CASE r.op = "GlobalRequire"
      <3>1. r.type = e.type => Contract!RequestedOnlyAs(r.type, k)
        BY <1>1, <1>7 DEF KeyInv, GlobalInv, Of, Contract!RequestedOnlyAs
      <3> QED BY <1>7, <2>1, <2>2, <2>5, <3>1
              DEF Check, GlobalRequireCheck, RequireCheck, Contract!May,
                  Contract!MayGlobalRequire
    <2>6. CASE r.op = "GlobalProvide"
      BY <1>7, <2>1, <2>2, <2>6
         DEF Check, GlobalProvideCheck, Contract!May, Contract!MayGlobalProvide
    <2> QED BY <1>4, <2>3, <2>4, <2>5, <2>6
  <1> QED BY <1>2, <1>5, <1>6, <1>7

\* What granting a registration does to the types on offer.
LEMMA OfferAfterAccept ==
    ASSUME OrderedInv, early' = {}, NEW r \in Registration, Accepting(r)
    PROVE  Offer' = IF r.op \in {"Provide", "GlobalProvide"}
                    THEN [Offer EXCEPT ![r.key] = r.type] ELSE Offer
  <1>1. /\ r.key \in Keys /\ r.type \in Types
        /\ entry[r.key] \in Entry /\ KeyInv(r.key) /\ TypeOK
        /\ entry[r.key].state \in {"Absent", "Provided", "GlobalProvided"}
    BY DEF OrderedInv, IInv, KeyInv, RecordInv, TypeOK, Registration, Entry,
           TypeState
  <1>2. /\ Offer' = [k \in Keys |->
                        IF entry'[k].state \in {"Provided", "GlobalProvided"}
                        THEN entry'[k].type ELSE Nil]
        /\ \A k \in Keys : k # r.key => entry'[k] = entry[k]
    BY <1>1 DEF Offer, Accepting, Accept, TypeOK
  <1>3. CASE r.op \in RequireOps
    <2>1. entry[r.key].state # "Absent"
      BY <1>1, <1>3 DEF Accepting, Accept, RequireOps
    <2>2. entry'[r.key] = entry[r.key]
      BY <1>1, <1>3, <2>1
         DEF Accepting, Accept, TypeOK, RequireOps, Required, KeyInv, RecordInv
    <2> QED BY <1>2, <1>3, <2>2 DEF Offer, RequireOps
  <1>4. CASE r.op = "Provide"
    <2>1. /\ entry'[r.key] = Provided(entry[r.key], r.type)
          /\ ProvideCheck(entry[r.key], r.type) = "None"
      BY <1>1, <1>4 DEF Accepting, Accept, TypeOK
    <2>2. /\ entry'[r.key].state = "Provided"
          /\ entry'[r.key].type = r.type
      BY <1>1, <2>1 DEF Provided, ProvideCheck, Emplaced, KeyInv, RecordInv,
                        Entry
    <2> QED BY <1>1, <1>2, <1>4, <2>2 DEF Offer
  <1>5. CASE r.op = "GlobalProvide"
    <2>1. /\ entry'[r.key] = GlobalProvided(entry[r.key], r.type)
          /\ GlobalProvideCheck(entry[r.key], r.type) = "None"
      BY <1>1, <1>5 DEF Accepting, Accept, TypeOK
    <2>2. /\ entry'[r.key].state = "GlobalProvided"
          /\ entry'[r.key].type = r.type
      BY <1>1, <2>1 DEF GlobalProvided, GlobalProvideCheck, Emplaced, KeyInv,
                        RecordInv, Entry
    <2> QED BY <1>1, <1>2, <1>5, <2>2 DEF Offer
  <1> QED BY <1>3, <1>4, <1>5 DEF Registration, Ops, ProvideOps

(***************************************************************************)
(* Until a key is requested before it is provided, every step of a board   *)
(* grants or denies a registration as the class comment of Blackboard      *)
(* promises, or changes nothing the contract speaks of.                    *)
(***************************************************************************)
THEOREM ImplementsContract == Spec => ContractSpec
  <1>1. Init => Contract!Init
    BY DEF Init, NoEntry, NoReply, Offer, Contract!Init
  <1>2. IInv /\ [Next]_vars => [Contract!Next]_(Contract!contractVars)
    <2> SUFFICES ASSUME IInv, [Next]_vars, early' = {}
                 PROVE  [Contract!Next]_(Contract!contractVars)
      BY DEF Contract!Next
    <2>0. [Next]_vars /\ OrderedInv /\ early' = {} /\ early = {}
      BY EarlyIsNeverUndone DEF OrderedInv
    <2>1. ASSUME NEW r \in Registration, Accepting(r)
          PROVE  Contract!Next
      <3>1. Contract!May(r)
        <4>1. Check(r) = "None"
          BY <2>1 DEF Accepting, Check
        <4> QED BY <2>0, <4>1, ChecksMatchContract
      <3>2. Offer' = IF r.op \in {"Provide", "GlobalProvide"}
                     THEN [Offer EXCEPT ![r.key] = r.type] ELSE Offer
        BY <2>0, <2>1, OfferAfterAccept
      <3>3. /\ accessors' = accessors \cup {r}
            /\ [call |-> reply'.call, granted |-> reply'.granted]
                 = [call |-> r, granted |-> TRUE]
        <4>1. PICK new : Accept(r, new)
          BY <2>1 DEF Accepting
        <4>2. reply'.call = r /\ reply'.granted = TRUE
          BY <4>1 DEF Accept
        <4> QED BY <4>1, <4>2 DEF Accept
      <3>4. Contract!Grant(r)
        BY <3>1, <3>2, <3>3 DEF Contract!Grant
      <3> QED BY <2>0, <3>4, ContractRegistration DEF Contract!Next
    <2>2. ASSUME NEW r \in Registration, Refusing(r)
          PROVE  Contract!Next
      <3>1. ~Contract!May(r)
        <4>1. Check(r) # "None"
          BY <2>2 DEF Refusing, Check
        <4> QED BY <2>0, <4>1, ChecksMatchContract
      <3>2. /\ entry' = entry /\ accessors' = accessors
            /\ [call |-> reply'.call, granted |-> reply'.granted]
                 = [call |-> r, granted |-> FALSE]
        <4>1. PICK c : Refuse(r, c)
          BY <2>2 DEF Refusing
        <4>2. reply'.call = r /\ reply'.granted = FALSE
          BY <4>1 DEF Refuse
        <4> QED BY <4>1, <4>2 DEF Refuse
      <3>3. Contract!Deny(r)
        BY <3>1, <3>2 DEF Contract!Deny, Offer
      <3> QED BY <2>0, <3>3, ContractRegistration DEF Contract!Next
    <2>3. ASSUME NEW a \in accessors, CallProvide(a)
          PROVE  UNCHANGED Contract!contractVars
      <3>1. accessors' = accessors /\ reply' = reply
        BY <2>3 DEF CallProvide
      <3>2. ASSUME NEW k \in Keys
            PROVE  /\ entry'[k].state = entry[k].state
                   /\ entry'[k].type = entry[k].type
        BY <2>3 DEF CallProvide, Written, OrderedInv, IInv, TypeOK, Entry
      <3>3. Offer' = Offer
        BY <3>2 DEF Offer
      <3> QED BY <2>0, <3>1, <3>3 DEF Contract!contractVars
    <2>4. CASE UNCHANGED vars
      BY <2>4 DEF vars, Offer, Contract!contractVars
    <2> QED BY <2>0, <2>1, <2>2, <2>3, <2>4, StepCases
  <1> QED BY <1>1, <1>2, InvariantHolds, PTL
          DEF Spec, ContractSpec, Contract!Spec

=============================================================================
