------------------------ MODULE DynamicModuleProofs -------------------------
(***************************************************************************)
(* Proofs about DynamicModule and Log, for every number of objects,        *)
(* libraries and names.                                                    *)
(***************************************************************************)
EXTENDS DynamicModule, FiniteSetTheorems, TLAPS

-----------------------------------------------------------------------------
(***************************************************************************)
(* The log frontend.                                                       *)
(***************************************************************************)

LabelInv == \A o \in Objects : label[o] \in ClientKey \cup {Unnamed, Nil}

\* The frontend's own sinks stay, and no other is known by a bare name.
ClientInv == Own \subseteq clients /\ clients \subseteq Own \cup ClientKey

SharedInv ==
    \A k \in ClientKey \ shared : \A o, p \in Objects :
        label[o] = k /\ label[p] = k => o = p

\* removeSink() is going to find the sink of whoever has one.
SinkInv ==
    \A k \in ClientKey \ shared :
        Holders(k) # {} /\ k[2] \notin OwnNames => k \in clients

\* How many sinks there are of a pair that only one object has had at a time,
\* those with a name of the frontend's own included.
CountInv ==
    \A k \in ClientKey \ shared :
        core[k] = IF Holders(k) # {} /\ k[2] \notin OwnNames THEN 1 ELSE 0

\* Of any other pair there is one more than the frontend will ever remove.
OrphanInv ==
    \A k \in shared : k[2] \notin OwnNames =>
        core[k] > 0 /\ (k \in clients => core[k] > 1)

LogInv == /\ LogTypeOK /\ LabelInv /\ ClientInv /\ SharedInv /\ SinkInv
          /\ CountInv /\ OrphanInv /\ RememberedSinksExist

LEMMA LogInvMatches == LogInv => SinksMatchObjects
<1> SUFFICES ASSUME LogInv PROVE SinksMatchObjects
  OBVIOUS
<1>1. OneSinkEach /\ RememberedSinksExist
  BY DEF LogInv, CountInv, OneSinkEach
<1>2. EachObjectHasSink
  BY DEF LogInv, CountInv, OrphanInv, EachObjectHasSink
<1> QED
  BY <1>1, <1>2 DEF SinksMatchObjects

LEMMA KeysDiffer ==
    /\ ClientKey \subseteq Key /\ Own \subseteq Key
    /\ Unnamed \in Key /\ Nil \notin Key
    /\ Unnamed \notin ClientKey /\ Unnamed \notin Own
    /\ ClientKey \cap Own = {}
  BY LabelAssumption, OwnNamesAssumption DEF ClientKey, Key, Own, Unnamed

\* The look-up by the bare name finds the frontend's own clients, no other.
LEMMA FoundMeansOwn ==
    ASSUME ClientInv, NEW k \in ClientKey
    PROVE  Found(k) <=> k[2] \in OwnNames
<1>1. <<"", k[2]>> \notin ClientKey
  BY LabelAssumption DEF ClientKey
<1>2. <<"", k[2]>> \in Own <=> k[2] \in OwnNames
  BY DEF Own
<1> QED
  BY <1>1, <1>2 DEF ClientInv, Found

LEMMA LogStart == LogInit => LogInv
<1> SUFFICES ASSUME LogInit PROVE LogInv
  OBVIOUS
<1>1. LogTypeOK
  BY KeysDiffer DEF LogInit, LogTypeOK
<1>2. \A k : Holders(k) # {} => k = Nil
  BY DEF LogInit, Holders
<1>3. \A k \in ClientKey : k # Nil /\ k \in Key /\ k \notin Own
  BY KeysDiffer
<1>4. CountInv /\ SinkInv /\ OrphanInv
  BY <1>2, <1>3 DEF LogInit, CountInv, SinkInv, OrphanInv
<1>5. RememberedSinksExist
  BY KeysDiffer DEF LogInit, RememberedSinksExist
<1>6. LabelInv /\ ClientInv /\ SharedInv
  BY <1>3 DEF LogInit, LabelInv, ClientInv, SharedInv
<1> QED
  BY <1>1, <1>4, <1>5, <1>6 DEF LogInv

LEMMA ConstructKeepsLogInv ==
    ASSUME LogInv, NEW o \in Objects, NEW k \in ClientKey, Construct(o, k)
    PROVE  LogInv'
<1> USE DEF LogInv
<1>1. Found(k) <=> k[2] \in OwnNames
  BY FoundMeansOwn
<1>2. label[o] = Nil /\ label' = [label EXCEPT ![o] = k]
  BY DEF Construct, Exists
<1>3. k \in Key /\ k # Nil /\ Nil \notin ClientKey
  BY KeysDiffer
<1>4. \A p \in Objects : label'[p] = IF p = o THEN k ELSE label[p]
  BY <1>2 DEF LogTypeOK
<1>5. Holders(k)' # {} /\ \A j \in ClientKey \ {k} : Holders(j)' = Holders(j)
  BY <1>2, <1>3, <1>4 DEF Holders
<1>6. shared \subseteq shared' /\ shared' \subseteq shared \cup {k}
  BY DEF Construct
<1>7. k \notin shared' => Holders(k) = {} /\ k \notin shared
  BY DEF Construct
<1>8. \/ k[2] \in OwnNames /\ clients' = clients /\ core' = core
      \/ /\ k[2] \notin OwnNames
         /\ clients' = clients \cup {k}
         /\ core' = [core EXCEPT ![k] = core[k] + 1]
  BY <1>1 DEF Construct, MakeSink
<1>9. /\ core' \in [Key -> Nat]
      /\ core'[k] = IF k[2] \in OwnNames THEN core[k] ELSE core[k] + 1
      /\ \A j \in Key \ {k} : core'[j] = core[j]
  BY <1>3, <1>8 DEF LogTypeOK
<1>10. LogTypeOK'
  BY <1>2, <1>3, <1>6, <1>8, <1>9 DEF LogTypeOK
<1>11. LabelInv' /\ ClientInv'
  BY <1>4, <1>8 DEF LabelInv, ClientInv
<1>12. SharedInv'
  BY <1>4, <1>6, <1>7 DEF SharedInv, Holders
<1>13. SinkInv'
  BY <1>5, <1>6, <1>8 DEF SinkInv
<1>14. CountInv'
  <2> SUFFICES ASSUME NEW j \in ClientKey, j \notin shared'
               PROVE  core'[j] = IF Holders(j)' # {} /\ j[2] \notin OwnNames
                                 THEN 1 ELSE 0
    BY DEF CountInv
  <2>1. j \in Key
    BY KeysDiffer
  <2>2. CASE j = k
    BY <1>5, <1>7, <1>9, <2>2 DEF CountInv
  <2>3. CASE j # k
    BY <1>5, <1>6, <1>9, <2>1, <2>3 DEF CountInv
  <2> QED
    BY <2>2, <2>3
<1>15. RememberedSinksExist'
  BY <1>3, <1>8, <1>9 DEF RememberedSinksExist, LogTypeOK
<1>16. OrphanInv'
  <2> SUFFICES ASSUME NEW j \in shared', j[2] \notin OwnNames
               PROVE  core'[j] > 0 /\ (j \in clients' => core'[j] > 1)
    BY DEF OrphanInv
  <2>1. j \in Key /\ core[j] \in Nat
    BY <1>3, <1>6 DEF LogTypeOK, ClientKey, Key
  <2>2. CASE j = k
    <3>1. core[k] > 0
      <4>1. CASE k \in shared
        BY <2>2, <4>1 DEF OrphanInv
      <4>2. CASE k \notin shared
        <5>1. Holders(k) # {}
          BY <2>2, <4>2 DEF Construct
        <5> QED
          BY <2>2, <4>2, <5>1 DEF CountInv
      <4> QED
        BY <4>1, <4>2
    <3> QED
      BY <1>9, <2>1, <2>2, <3>1
  <2>3. CASE j # k
    BY <1>6, <1>8, <1>9, <2>1, <2>3 DEF OrphanInv
  <2> QED
    BY <2>2, <2>3
<1> QED
  BY <1>10, <1>11, <1>12, <1>13, <1>14, <1>15, <1>16

\* What the end of an object's sink does, whatever becomes of the object.
LEMMA RemoveSinkEffect ==
    ASSUME LogInv, NEW o \in Objects, label[o] # Nil, RemoveSink(label[o])
    PROVE  /\ clients' = clients \ {label[o]}
           /\ core' \in [Key -> Nat]
           /\ \A j \in Key \ {label[o]} : core'[j] = core[j]
           /\ Own \subseteq clients'
           /\ label[o] \in ClientKey \ shared => core'[label[o]] = 0
           /\ \A j \in shared : j[2] \notin OwnNames =>
                  core'[j] > 0 /\ (j \in clients' => core'[j] > 1)
<1> DEFINE k == label[o]
<1> USE DEF LogInv
<1>1. k \in ClientKey \cup {Unnamed} /\ k \in Key /\ k \notin Own
  BY KeysDiffer DEF LabelInv
<1>2. CASE k \notin clients /\ clients' = clients /\ core' = core
  <2>1. k \in ClientKey \ shared => core[k] = 0
    <3> SUFFICES ASSUME k \in ClientKey \ shared PROVE core[k] = 0
      OBVIOUS
    <3>1. k[2] \in OwnNames
      BY <1>2 DEF SinkInv, Holders
    <3> QED
      BY <3>1 DEF CountInv
  <2>2. \A j \in shared : j[2] \notin OwnNames =>
            core'[j] > 0 /\ (j \in clients' => core'[j] > 1)
    BY <1>2 DEF OrphanInv
  <2> QED
    BY <1>2, <2>1, <2>2 DEF LogTypeOK, ClientInv
<1>3. CASE /\ k \in clients
           /\ clients' = clients \ {k}
           /\ core' = [core EXCEPT ![k] = core[k] - 1]
  <2>1. core[k] \in Nat /\ core[k] > 0
    BY <1>1, <1>3 DEF RememberedSinksExist, LogTypeOK
  <2>2. core' \in [Key -> Nat] /\ core'[k] = core[k] - 1
    BY <1>1, <1>3, <2>1 DEF LogTypeOK
  <2>3. k \in ClientKey \ shared => core[k] = 1
    BY <2>1 DEF CountInv
  <2>4. \A j \in Key \ {k} : core'[j] = core[j]
    BY <1>3 DEF LogTypeOK
  <2>5. ASSUME NEW j \in shared, j[2] \notin OwnNames
        PROVE  core'[j] > 0 /\ (j \in clients' => core'[j] > 1)
    <3>1. CASE j = k
      BY <1>3, <2>1, <2>2, <2>5, <3>1 DEF OrphanInv
    <3>2. CASE j # k
      <4>1. j \in Key
        BY KeysDiffer DEF LogTypeOK
      <4> QED
        BY <1>3, <2>4, <2>5, <3>2, <4>1 DEF OrphanInv
    <3> QED
      BY <3>1, <3>2
  <2> QED
    BY <1>1, <1>3, <2>2, <2>3, <2>4, <2>5 DEF LogTypeOK, ClientInv
<1> QED
  BY <1>2, <1>3 DEF RemoveSink

LEMMA DestroyKeepsLogInv ==
    ASSUME LogInv, NEW o \in Objects, Destroy(o)
    PROVE  LogInv'
<1> USE DEF LogInv
<1>0. PICK k : k = label[o]
  OBVIOUS
<1>1. k # Nil /\ label' = [label EXCEPT ![o] = Nil] /\ shared' = shared
  BY <1>0 DEF Destroy, Exists
<1>2. /\ clients' = clients \ {k}
      /\ core' \in [Key -> Nat]
      /\ \A j \in Key \ {k} : core'[j] = core[j]
      /\ Own \subseteq clients'
      /\ k \in ClientKey \ shared => core'[k] = 0
      /\ \A j \in shared : j[2] \notin OwnNames =>
             core'[j] > 0 /\ (j \in clients' => core'[j] > 1)
  BY <1>0, <1>1, RemoveSinkEffect DEF Destroy
<1>3. \A p \in Objects : label'[p] = IF p = o THEN Nil ELSE label[p]
  BY <1>1 DEF LogTypeOK
<1>4. \A j \in ClientKey \ {k} : Holders(j)' = Holders(j)
  BY <1>0, <1>1, <1>3, KeysDiffer DEF Holders
<1>5. k \in ClientKey \ shared => Holders(k)' = {}
  BY <1>0, <1>1, <1>3 DEF Holders, SharedInv
<1>6. LogTypeOK' /\ LabelInv' /\ ClientInv'
  BY <1>1, <1>2, <1>3 DEF LogTypeOK, LabelInv, ClientInv
<1>7. SharedInv'
  BY <1>1, <1>3, KeysDiffer DEF SharedInv
<1>8. SinkInv'
  BY <1>1, <1>2, <1>4, <1>5 DEF SinkInv
<1>9. CountInv'
  BY <1>1, <1>2, <1>4, <1>5, KeysDiffer DEF CountInv
<1>10. RememberedSinksExist'
  BY <1>2 DEF RememberedSinksExist, LogTypeOK
<1>11. OrphanInv'
  BY <1>1, <1>2 DEF OrphanInv
<1> QED
  BY <1>6, <1>7, <1>8, <1>9, <1>10, <1>11

\* The holders of a pair, when an object hands its own to another.
LEMMA HandedHolders ==
    ASSUME LogInv, NEW o \in Objects, NEW p \in Objects, o # p,
           label[p] # Nil, label' = Handed(o, p), shared' = shared
    PROVE  /\ LabelInv' /\ SharedInv'
           /\ label' \in [Objects -> Key \cup {Nil}]
           /\ \A k \in ClientKey \ shared :
                  Holders(k)' # {} <=> \/ label[p] = k
                                       \/ Holders(k) # {} /\ label[o] # k
<1> USE DEF LogInv
<1>1. \A q \in Objects : label'[q] = IF q = p THEN Unnamed
                                     ELSE IF q = o THEN label[p] ELSE label[q]
  BY DEF Handed, LogTypeOK
<1>2. label' \in [Objects -> Key \cup {Nil}]
  BY KeysDiffer DEF Handed, LogTypeOK
<1>3. LabelInv'
  BY <1>1 DEF LabelInv
<1>4. SharedInv'
  BY <1>1, KeysDiffer DEF SharedInv
<1>5. ASSUME NEW k \in ClientKey \ shared
      PROVE  Holders(k)' # {} <=> \/ label[p] = k
                                  \/ Holders(k) # {} /\ label[o] # k
  <2>1. k # Unnamed
    BY KeysDiffer
  <2>2. Holders(k)' # {} <=> \E q \in Objects : label'[q] = k
    BY DEF Holders
  <2>3. Holders(k) # {} <=> \E q \in Objects : label[q] = k
    BY DEF Holders
  <2>4. ASSUME label[p] = k PROVE \E q \in Objects : label'[q] = k
    BY <1>1, <2>4
  <2>5. ASSUME NEW q \in Objects, label[q] = k, label[o] # k
        PROVE  \E r \in Objects : label'[r] = k
    BY <1>1, <2>5
  <2>6. ASSUME NEW q \in Objects, label'[q] = k, label[p] # k
        PROVE  label[q] = k /\ label[o] # k
    BY <1>1, <2>1, <2>6 DEF SharedInv
  <2> QED
    BY <2>2, <2>3, <2>4, <2>5, <2>6
<1> QED
  BY <1>2, <1>3, <1>4, <1>5

LEMMA MoveConstructKeepsLogInv ==
    ASSUME LogInv, NEW o \in Objects, NEW p \in Objects, MoveConstruct(o, p)
    PROVE  LogInv'
<1> USE DEF LogInv
<1>1. /\ o # p /\ label[o] = Nil /\ label[p] # Nil
      /\ label' = Handed(o, p)
      /\ clients' = clients /\ core' = core /\ shared' = shared
  BY DEF MoveConstruct, Exists
<1>2. /\ LabelInv' /\ SharedInv'
      /\ label' \in [Objects -> Key \cup {Nil}]
      /\ \A k \in ClientKey \ shared : Holders(k)' # {} <=> Holders(k) # {}
  <2>1. /\ LabelInv' /\ SharedInv'
        /\ label' \in [Objects -> Key \cup {Nil}]
        /\ \A k \in ClientKey \ shared :
               Holders(k)' # {} <=> \/ label[p] = k
                                    \/ Holders(k) # {} /\ label[o] # k
    BY <1>1, HandedHolders
  <2>2. \A k \in ClientKey : label[o] # k
    BY <1>1, KeysDiffer
  <2>3. \A k : label[p] = k => Holders(k) # {}
    BY DEF Holders
  <2> QED
    BY <2>1, <2>2, <2>3
<1>3. CountInv' /\ SinkInv' /\ OrphanInv'
  BY <1>1, <1>2 DEF CountInv, SinkInv, OrphanInv
<1> QED
  BY <1>1, <1>2, <1>3 DEF LogTypeOK, ClientInv, RememberedSinksExist

LEMMA MoveAssignKeepsLogInv ==
    ASSUME LogInv, NEW o \in Objects, NEW p \in Objects, o # p,
           label[o] # Nil, label[p] # Nil,
           RemoveSink(label[o]), label' = Handed(o, p), shared' = shared
    PROVE  LogInv'
<1> USE DEF LogInv
<1>0. PICK k : k = label[o]
  OBVIOUS
<1>1. /\ LabelInv' /\ SharedInv'
      /\ label' \in [Objects -> Key \cup {Nil}]
      /\ \A j \in ClientKey \ shared :
             Holders(j)' # {} <=> \/ label[p] = j
                                  \/ Holders(j) # {} /\ label[o] # j
  BY HandedHolders
<1>2. /\ clients' = clients \ {k}
      /\ core' \in [Key -> Nat]
      /\ \A j \in Key \ {k} : core'[j] = core[j]
      /\ Own \subseteq clients'
      /\ k \in ClientKey \ shared => core'[k] = 0
      /\ \A j \in shared : j[2] \notin OwnNames =>
             core'[j] > 0 /\ (j \in clients' => core'[j] > 1)
  BY <1>0, RemoveSinkEffect
<1>3. \A j \in ClientKey \ shared :
          Holders(j)' # {} <=> Holders(j) # {} /\ j # k
  <2>1. \A j : label[p] = j => Holders(j) # {}
    BY DEF Holders
  <2>2. \A j \in ClientKey \ shared : label[p] = j => label[o] # j
    BY DEF SharedInv
  <2> QED
    BY <1>0, <1>1, <2>1, <2>2
<1>4. CountInv'
  BY <1>2, <1>3, KeysDiffer DEF CountInv
<1>5. SinkInv'
  BY <1>2, <1>3 DEF SinkInv
<1>6. RememberedSinksExist'
  BY <1>2 DEF RememberedSinksExist, LogTypeOK
<1>7. OrphanInv'
  BY <1>2 DEF OrphanInv
<1> QED
  BY <1>1, <1>2, <1>4, <1>5, <1>6, <1>7 DEF LogTypeOK, ClientInv

\* Who exists after each of the special members.
LEMMA ConstructExists ==
    ASSUME LogTypeOK, NEW o \in Objects, NEW k \in ClientKey, Construct(o, k)
    PROVE  ~Exists(o) /\ \A q \in Objects : Exists(q)' <=> q = o \/ Exists(q)
  BY KeysDiffer DEF LogTypeOK, Construct, Exists

LEMMA DestroyExists ==
    ASSUME LogTypeOK, NEW o \in Objects, Destroy(o)
    PROVE  \A q \in Objects : Exists(q)' <=> q # o /\ Exists(q)
  BY DEF LogTypeOK, Destroy, Exists

LEMMA HandedExists ==
    ASSUME LogTypeOK, NEW o \in Objects, NEW p \in Objects, o # p, Exists(p),
           label' = Handed(o, p)
    PROVE  \A q \in Objects : Exists(q)' <=> q = o \/ Exists(q)
  BY KeysDiffer DEF LogTypeOK, Handed, Exists

-----------------------------------------------------------------------------
(***************************************************************************)
(* The loader.                                                             *)
(***************************************************************************)

TypeInv ==
    /\ fate \in {"up", "uncaught", "unloaded", "undefined"}
    /\ held \in [Wrappers -> Held]
    /\ refs \in [Libs -> Nat]
    /\ task \in Task
    /\ result \in {"none", "loaded", "runtime_error", "logic_error",
                   "exception", "other"}

Constructing == task.at = "construct"

\* What each stage of a call may assume.
TaskInv ==
    /\ task.at = "idle" => task = NoTask
    /\ Constructing => task.dll \in Libs /\ task.module \in Instances
    /\ task.at \in {"drop", "assign", "take"} =>
           task.wrapper \in Wrappers /\ Exists(task.wrapper)
    /\ task.at \in {"assign", "take"} =>
           task.from \in Wrappers /\ task.from # task.wrapper
    /\ task.at \in {"drop", "take"} => held[task.wrapper].module = Nil

\* A wrapper that is not there holds nothing.
WrapperInv ==
    \A d \in Wrappers :
        Exists(d) \/ (held[d].dll = Nil /\ held[d].module = Nil)

\* The library whose factory is running has a handle no wrapper holds yet.
RefsInv ==
    \A l \in Libs :
        refs[l] = Cardinality(HoldersOf(l))
                  + (IF Constructing /\ task.dll = l THEN 1 ELSE 0)

Wrapped(i) == \E d \in Wrappers : held[d].module = i

\* Nor has the module that is being made a wrapper.
OwnerInv ==
    \A i \in Instances :
        /\ Exists(i) <=> Wrapped(i) \/ (Constructing /\ task.module = i)
        /\ Constructing /\ task.module = i => ~Wrapped(i)
        /\ \A d, e \in Wrappers :
               held[d].module = i /\ held[e].module = i => d = e

UpInv == TaskInv /\ WrapperInv /\ RefsInv /\ OwnerInv

IInv == LogInv /\ TypeInv /\ DeletersAreLoaded /\ (fate = "up" => UpInv)

LEMMA KindsDiffer ==
    /\ Nil \notin Wrappers /\ Nil \notin Instances /\ Nil \notin Libs
    /\ Wrappers \subseteq Objects /\ Instances \subseteq Objects
    /\ Wrappers \cap Instances = {}
    /\ Others \subseteq Objects /\ Others \cap Wrappers = {}
    /\ Others \cap Instances = {}
  BY ObjectsAssumption DEF Others

LEMMA KeysOfModules ==
    /\ \A l \in Libs : ModuleKey(NameOf[l]) \in ClientKey
    /\ \A l \in Libs : ModuleKey(Prefixed[NameOf[l]]) \in ClientKey
    /\ OtherKey \subseteq ClientKey
  BY LibsAssumption, NamesAssumption DEF ModuleKey, ClientKey

LEMMA HoldersAreFinite ==
    ASSUME NEW l
    PROVE  IsFiniteSet(HoldersOf(l)) /\ Cardinality(HoldersOf(l)) \in Nat
<1>1. HoldersOf(l) \subseteq Wrappers
  BY DEF HoldersOf
<1> QED
  BY <1>1, ObjectsAssumption, FS_Subset, FS_CardinalityType

\* A library that a wrapper holds is loaded.
LEMMA HeldIsOpen ==
    ASSUME TypeInv, RefsInv, NEW d \in Wrappers, held[d].dll \in Libs
    PROVE  refs[held[d].dll] > 0
<1>1. d \in HoldersOf(held[d].dll)
  BY DEF HoldersOf
<1>2. /\ IsFiniteSet(HoldersOf(held[d].dll))
      /\ Cardinality(HoldersOf(held[d].dll)) \in Nat
  BY HoldersAreFinite
<1>3. Cardinality(HoldersOf(held[d].dll)) # 0
  BY <1>1, <1>2, FS_EmptySet
<1> QED
  BY <1>2, <1>3 DEF RefsInv

\* The wrapper d gives up its library, and e its own to d.
LEMMA HandOverCounts ==
    ASSUME TypeInv, NEW d \in Wrappers, NEW e \in Wrappers, d # e,
           held' = HandOver(d, e), NEW l \in Libs
    PROVE  Cardinality(HoldersOf(l))
           = Cardinality(HoldersOf(l)') + (IF held[d].dll = l THEN 1 ELSE 0)
<1> DEFINE H == HoldersOf(l)  R == (HoldersOf(l) \ {d}) \ {e}
<1>1. \A w \in Wrappers : held'[w].dll = IF w = d THEN held[e].dll
                                         ELSE IF w = e THEN Nil
                                         ELSE held[w].dll
  BY DEF HandOver, TypeInv, Held
<1>2. HoldersOf(l)' = IF held[e].dll = l THEN R \cup {d} ELSE R
  BY <1>1, KindsDiffer DEF HoldersOf
<1>3. /\ d \in H <=> held[d].dll = l
      /\ e \in H <=> held[e].dll = l
  BY DEF HoldersOf
<1>4. IsFiniteSet(H) /\ Cardinality(H) \in Nat
  BY HoldersAreFinite
<1> HIDE DEF H
<1>5. /\ IsFiniteSet(H \ {d}) /\ Cardinality(H \ {d}) \in Nat
      /\ Cardinality(H \ {d}) = IF d \in H THEN Cardinality(H) - 1
                                           ELSE Cardinality(H)
  BY <1>4, FS_RemoveElement, FS_CardinalityType
<1>6. /\ IsFiniteSet(R) /\ Cardinality(R) \in Nat
      /\ Cardinality(R) = IF e \in H THEN Cardinality(H \ {d}) - 1
                                     ELSE Cardinality(H \ {d})
  <2>1. R = (H \ {d}) \ {e} /\ (e \in H \ {d} <=> e \in H)
    BY DEF H
  <2> QED
    BY <2>1, <1>5, FS_RemoveElement, FS_CardinalityType
<1>7. d \notin R
  OBVIOUS
<1> HIDE DEF R
<1>8. Cardinality(R \cup {d}) = Cardinality(R) + 1
  BY <1>6, <1>7, FS_AddElement
<1> QED
  BY <1>2, <1>3, <1>4, <1>5, <1>6, <1>8 DEF H

\* Handing over moves a module along and leaves the source without.
LEMMA HandOverEffect ==
    ASSUME TypeInv, DeletersAreLoaded,
           NEW d \in Wrappers, NEW e \in Wrappers, d # e,
           held' = HandOver(d, e), fate' = fate
    PROVE  /\ held' \in [Wrappers -> Held]
           /\ held'[d] = held[e]
           /\ held'[e].dll = Nil /\ held'[e].module = Nil
           /\ \A w \in Wrappers \ {d, e} : held'[w] = held[w]
           /\ DeletersAreLoaded'
<1>1. /\ held' \in [Wrappers -> Held]
      /\ held'[d] = held[e]
      /\ held'[e].dll = Nil /\ held'[e].module = Nil
      /\ \A w \in Wrappers \ {d, e} : held'[w] = held[w]
  BY DEF HandOver, TypeInv, Held
<1> QED
  BY <1>1 DEF DeletersAreLoaded

LEMMA CallDeleterEffect ==
    ASSUME IInv, fate = "up", NEW d \in Wrappers, CallDeleter(d)
    PROVE  /\ fate' = "up" /\ LogInv' /\ DeletersAreLoaded'
           /\ held' \in [Wrappers -> Held]
           /\ held'[d].module = Nil
           /\ \A w \in Wrappers : held'[w].dll = held[w].dll
           /\ \A w \in Wrappers \ {d} : held'[w] = held[w]
           /\ \A w \in Wrappers : Exists(w)' <=> Exists(w)
           /\ \A i \in Instances :
                  Exists(i)' <=> Exists(i) /\ i # held[d].module
<1> USE DEF IInv, UpInv
<1> DEFINE i == held[d].module
<1>0. i \in Instances \cup {Nil}
  BY DEF TypeInv, Held
<1>1. CASE i = Nil /\ UNCHANGED <<logVars, held, fate>>
  <2>1. LogInv'
    BY <1>1 DEF logVars, LogInv, LogTypeOK, LabelInv, ClientInv, SharedInv,
                SinkInv, CountInv, OrphanInv, RememberedSinksExist, Holders
  <2> QED
    BY <1>1, <2>1, KindsDiffer DEF logVars, Exists, DeletersAreLoaded, TypeInv
<1>2. CASE /\ i # Nil
           /\ Destroy(i)
           /\ held' = [held EXCEPT ![d].module = Nil]
           /\ fate' = fate
  <2>1. i \in Instances /\ i \in Objects
    BY <1>0, <1>2, KindsDiffer
  <2>2. LogInv'
    BY <1>2, <2>1, DestroyKeepsLogInv
  <2>3. \A q \in Objects : Exists(q)' <=> q # i /\ Exists(q)
    BY <1>2, <2>1, DestroyExists DEF LogInv
  <2>4. /\ held' \in [Wrappers -> Held]
        /\ held'[d].module = Nil
        /\ \A w \in Wrappers : held'[w].dll = held[w].dll
        /\ \A w \in Wrappers \ {d} : held'[w] = held[w]
    BY <1>2 DEF TypeInv, Held
  <2>5. DeletersAreLoaded'
    BY <1>2, <2>4 DEF DeletersAreLoaded
  <2> QED
    BY <1>2, <2>1, <2>2, <2>3, <2>4, <2>5, KindsDiffer
<1>3. CASE i # Nil /\ refs[held[d].deleter] = 0
  <2>1. held[d].deleter = held[d].dll /\ held[d].dll \in Libs
    BY <1>3 DEF DeletersAreLoaded, TypeInv, Held
  <2>2. refs[held[d].dll] > 0
    BY <2>1, HeldIsOpen
  <2> QED
    BY <1>3, <2>1, <2>2
<1> QED
  BY <1>1, <1>2, <1>3 DEF CallDeleter

-----------------------------------------------------------------------------

LEMMA NoTaskIsATask == NoTask \in Task /\ NoTask.at = "idle"
  BY DEF NoTask, Task

LEMMA InvStart == DynInit => IInv
<1> SUFFICES ASSUME DynInit PROVE IInv
  OBVIOUS
<1>1. LogInv
  BY LogStart DEF DynInit
<1>2. TypeInv /\ DeletersAreLoaded
  BY NoTaskIsATask DEF DynInit, TypeInv, Held, Nothing, DeletersAreLoaded
<1>3. TaskInv /\ WrapperInv
  BY NoTaskIsATask DEF DynInit, TaskInv, Constructing, WrapperInv, Nothing
<1>4. \A l \in Libs : HoldersOf(l) = {}
  BY KindsDiffer DEF DynInit, HoldersOf, Nothing
<1>5. RefsInv
  BY <1>4, FS_EmptySet, NoTaskIsATask DEF DynInit, RefsInv, Constructing
<1>6. OwnerInv
  <2>1. \A q \in Objects : ~Exists(q)
    BY DEF DynInit, LogInit, Exists
  <2>2. \A i \in Instances : ~Wrapped(i)
    BY KindsDiffer DEF DynInit, Nothing, Wrapped
  <2> QED
    BY <2>1, <2>2, KindsDiffer, NoTaskIsATask
    DEF DynInit, OwnerInv, Wrapped, Constructing
<1> QED
  BY <1>1, <1>2, <1>3, <1>5, <1>6 DEF IInv, UpInv

\* Steps that leave the wrappers, the handles and the task alone.
LEMMA LogStep ==
    ASSUME IInv, fate = "up", UNCHANGED <<held, refs, task>>, LogInv', 
           fate' \in {"up", "uncaught", "undefined"},
           result' \in {"none", "loaded", "runtime_error", "logic_error",
                        "exception", "other"},
           \A q \in Wrappers : Exists(q) => Exists(q)',
           \A q \in Instances : Exists(q)' <=> Exists(q)
    PROVE  IInv'
<1> USE DEF IInv, UpInv
<1>1. TypeInv' /\ DeletersAreLoaded'
  BY DEF TypeInv, DeletersAreLoaded
<1>2. TaskInv' /\ WrapperInv' /\ RefsInv'
  BY DEF TaskInv, WrapperInv, RefsInv, Constructing, HoldersOf
<1>3. OwnerInv'
  BY DEF OwnerInv, Wrapped, Constructing
<1> QED
  BY <1>1, <1>2, <1>3

LEMMA LogUnchanged ==
    ASSUME LogInv, UNCHANGED logVars
    PROVE  LogInv' /\ \A q \in Objects : Exists(q)' <=> Exists(q)
  BY DEF logVars, LogInv, LogTypeOK, LabelInv, ClientInv, SharedInv, SinkInv,
         CountInv, OrphanInv, RememberedSinksExist, Holders, Exists

\* A failed load leaves no trace.
LEMMA FailedLoadStep ==
    ASSUME IInv, OpenFails \/ \E l \in Libs : LacksFunction(l)
    PROVE  IInv'
<1>1. /\ fate = "up" /\ UNCHANGED <<logVars, held, refs, task>>
      /\ fate' \in {"up", "uncaught"}
      /\ result' \in {"runtime_error", "logic_error"}
  BY DEF OpenFails, LacksFunction, Free
<1>2. LogInv' /\ \A q \in Objects : Exists(q)' <=> Exists(q)
  BY <1>1, LogUnchanged DEF IInv
<1> QED
  BY <1>1, <1>2, KindsDiffer, LogStep

LEMMA CallFactoryStep ==
    ASSUME IInv, NEW l \in Libs, NEW i \in Instances, CallFactory(l, i)
    PROVE  IInv'
<1> USE DEF IInv, UpInv
<1>1. /\ fate = "up" /\ fate' = "up" /\ task = NoTask /\ ~Constructing
      /\ held' = held /\ result' = result
      /\ Construct(i, ModuleKey(NameOf[l]))
  BY NoTaskIsATask DEF CallFactory, Free, Constructing
<1>2. /\ LogInv' /\ ~Exists(i)
      /\ \A q \in Objects : Exists(q)' <=> q = i \/ Exists(q)
  BY <1>1, ConstructKeepsLogInv, ConstructExists, KindsDiffer, KeysOfModules
  DEF LogInv
<1>3. /\ task' \in Task /\ task'.at = "construct"
      /\ task'.dll = l /\ task'.module = i
  BY DEF CallFactory, NoTask, Task
<1>4. /\ refs' \in [Libs -> Nat] /\ refs'[l] = refs[l] + 1
      /\ \A k \in Libs \ {l} : refs'[k] = refs[k]
  BY DEF CallFactory, Opened, TypeInv
<1>5. TypeInv' /\ DeletersAreLoaded'
  BY <1>1, <1>3, <1>4 DEF TypeInv, DeletersAreLoaded
<1>6. TaskInv' /\ WrapperInv'
  BY <1>1, <1>2, <1>3, KindsDiffer DEF TaskInv, WrapperInv, Constructing
<1>7. RefsInv'
  <2>1. \A k \in Libs : HoldersOf(k)' = HoldersOf(k)
    BY <1>1 DEF HoldersOf
  <2>2. \A k \in Libs : Cardinality(HoldersOf(k)) \in Nat
    BY HoldersAreFinite
  <2> QED
    BY <1>1, <1>3, <1>4, <2>1, <2>2 DEF RefsInv, Constructing
<1>8. OwnerInv'
  <2>1. ~Wrapped(i)
    BY <1>1, <1>2 DEF OwnerInv
  <2>2. \A j \in Instances : Wrapped(j)' <=> Wrapped(j)
    BY <1>1 DEF Wrapped
  <2>3. \A j \in Instances : Exists(j)' <=> j = i \/ Exists(j)
    BY <1>2, KindsDiffer
  <2> QED
    BY <1>1, <1>3, <2>1, <2>2, <2>3 DEF OwnerInv, Constructing
<1> QED
  BY <1>1, <1>2, <1>5, <1>6, <1>7, <1>8

LEMMA ConstructorThrowsStep ==
    ASSUME IInv, ConstructorThrows
    PROVE  IInv'
<1> USE DEF IInv, UpInv
<1>1. /\ fate = "up" /\ fate' \in {"uncaught", "undefined"}
      /\ Constructing /\ Destroy(task.module)
      /\ held' = held /\ task' = NoTask
      /\ result' \in {"exception", "other"}
      /\ refs' = refs \/ refs' = Closed(task.dll)
  BY DEF ConstructorThrows, Constructing
<1>2. task.dll \in Libs /\ task.module \in Instances
  BY <1>1 DEF TaskInv
<1>3. LogInv'
  BY <1>1, <1>2, DestroyKeepsLogInv, KindsDiffer
<1>4. refs[task.dll] > 0
  BY <1>1, <1>2, HoldersAreFinite DEF RefsInv
<1>5. refs' \in [Libs -> Nat]
  BY <1>1, <1>2, <1>4 DEF Closed, TypeInv
<1>6. TypeInv' /\ DeletersAreLoaded'
  BY <1>1, <1>5, NoTaskIsATask DEF TypeInv, DeletersAreLoaded
<1> QED
  BY <1>1, <1>3, <1>6

LEMMA WrapStep ==
    ASSUME IInv, NEW d \in Wrappers, Wrap(d)
    PROVE  IInv'
<1> USE DEF IInv, UpInv
<1> DEFINE l == task.dll  i == task.module
<1>1. /\ fate = "up" /\ fate' = "up" /\ Constructing /\ refs' = refs
      /\ task' = NoTask /\ ~Constructing' /\ result' = "loaded"
      /\ Construct(d, ModuleKey(Prefixed[NameOf[l]]))
  BY NoTaskIsATask DEF Wrap, Constructing
<1>2. l \in Libs /\ i \in Instances
  BY <1>1 DEF TaskInv
<1>3. /\ LogInv' /\ ~Exists(d)
      /\ \A q \in Objects : Exists(q)' <=> q = d \/ Exists(q)
  BY <1>1, <1>2, ConstructKeepsLogInv, ConstructExists, KindsDiffer,
     KeysOfModules DEF LogInv
<1>4. /\ held' \in [Wrappers -> Held]
      /\ held'[d] = [dll |-> l, module |-> i, deleter |-> l]
      /\ \A e \in Wrappers \ {d} : held'[e] = held[e]
  BY <1>2 DEF Wrap, TypeInv, Held
<1>5. held[d].dll = Nil /\ held[d].module = Nil
  BY <1>1, <1>3 DEF WrapperInv
<1>6. TypeInv'
  BY <1>1, <1>4, NoTaskIsATask DEF TypeInv
<1>7. DeletersAreLoaded'
  BY <1>1, <1>2, <1>4, KindsDiffer DEF DeletersAreLoaded
<1>8. TaskInv' /\ WrapperInv'
  BY <1>1, <1>3, <1>4, NoTaskIsATask, KindsDiffer
  DEF TaskInv, WrapperInv, Constructing
<1>9. RefsInv'
  <2> SUFFICES ASSUME NEW k \in Libs
               PROVE  refs'[k] = Cardinality(HoldersOf(k)') + 0
    BY <1>1 DEF RefsInv, Constructing
  <2>1. IsFiniteSet(HoldersOf(k)) /\ Cardinality(HoldersOf(k)) \in Nat
    BY HoldersAreFinite
  <2>2. d \notin HoldersOf(k)
    BY <1>5, KindsDiffer DEF HoldersOf
  <2>3. CASE k = l
    <3>1. HoldersOf(k)' = HoldersOf(k) \cup {d}
      BY <1>4, <2>3 DEF HoldersOf
    <3>2. Cardinality(HoldersOf(k) \cup {d}) = Cardinality(HoldersOf(k)) + 1
      BY <2>1, <2>2, FS_AddElement
    <3> QED
      BY <1>1, <2>1, <2>3, <3>1, <3>2 DEF RefsInv
  <2>4. CASE k # l
    <3>1. HoldersOf(k)' = HoldersOf(k)
      BY <1>4, <2>2, <2>4 DEF HoldersOf
    <3> QED
      BY <1>1, <2>1, <2>4, <3>1 DEF RefsInv
  <2> QED
    BY <2>3, <2>4
<1>10. OwnerInv'
  <2>1. \A j \in Instances : Wrapped(j)' <=> Wrapped(j) \/ j = i
    BY <1>4, <1>5, KindsDiffer DEF Wrapped
  <2>2. \A j \in Instances : Exists(j)' <=> Exists(j)
    BY <1>3, KindsDiffer
  <2>3. ~Wrapped(i)
    BY <1>1, <1>2 DEF OwnerInv
  <2>4. \A j \in Instances : \A e, f \in Wrappers :
            held'[e].module = j /\ held'[f].module = j => e = f
    BY <1>1, <1>4, <2>3 DEF OwnerInv, Wrapped
  <2>5. \A j \in Instances : Exists(j) <=> Wrapped(j) \/ i = j
    BY <1>1 DEF OwnerInv
  <2> QED
    BY <1>1, <2>1, <2>2, <2>4, <2>5 DEF OwnerInv
<1> QED
  BY <1>1, <1>3, <1>6, <1>7, <1>8, <1>9, <1>10

\* The deleter of d is called at the begin of a destruction or an assignment.
LEMMA DeleterStep ==
    ASSUME IInv, fate = "up", ~Constructing, NEW d \in Wrappers, CallDeleter(d),
           Exists(d), refs' = refs, result' = result, task' \in Task,
           \/ /\ task'.at = "drop" /\ task'.wrapper = d
           \/ /\ task'.at = "take" /\ task'.wrapper = d
              /\ task'.from \in Wrappers /\ task'.from # d
    PROVE  IInv'
<1> USE DEF IInv, UpInv
<1>1. /\ fate' = "up" /\ LogInv' /\ DeletersAreLoaded'
      /\ held' \in [Wrappers -> Held]
      /\ held'[d].module = Nil
      /\ \A w \in Wrappers : held'[w].dll = held[w].dll
      /\ \A w \in Wrappers \ {d} : held'[w] = held[w]
      /\ \A w \in Wrappers : Exists(w)' <=> Exists(w)
      /\ \A i \in Instances : Exists(i)' <=> Exists(i) /\ i # held[d].module
  BY CallDeleterEffect
<1>2. TypeInv' /\ ~Constructing'
  BY <1>1 DEF TypeInv, Constructing
<1>3. TaskInv' /\ WrapperInv'
  BY <1>1, <1>2 DEF TaskInv, WrapperInv, Constructing
<1>4. RefsInv'
  <2>1. \A l \in Libs : HoldersOf(l)' = HoldersOf(l)
    BY <1>1 DEF HoldersOf
  <2> QED
    BY <1>2, <2>1 DEF RefsInv
<1>5. OwnerInv'
  <2>1. ASSUME NEW i \in Instances
        PROVE  Wrapped(i)' <=> Wrapped(i) /\ i # held[d].module
    BY <1>1, KindsDiffer DEF Wrapped, OwnerInv
  <2>2. \A i \in Instances : \A e, f \in Wrappers :
            held'[e].module = i /\ held'[f].module = i => e = f
    BY <1>1, KindsDiffer DEF OwnerInv
  <2> QED
    BY <1>1, <1>2, <2>1, <2>2 DEF OwnerInv
<1> QED
  BY <1>1, <1>2, <1>3, <1>4, <1>5

LEMMA BeginDestroyStep ==
    ASSUME IInv, NEW d \in Wrappers, BeginDestroy(d)
    PROVE  IInv'
<1>1. /\ task' \in Task /\ task'.at = "drop" /\ task'.wrapper = d
  BY DEF BeginDestroy, NoTask, Task
<1> QED
  BY <1>1, NoTaskIsATask, DeleterStep DEF BeginDestroy, Free, Constructing

LEMMA DeleteOwnStep ==
    ASSUME IInv, DeleteOwn
    PROVE  IInv'
<1>1. /\ task.wrapper \in Wrappers /\ Exists(task.wrapper)
      /\ task.from \in Wrappers /\ task.from # task.wrapper
  BY DEF DeleteOwn, IInv, UpInv, TaskInv
<1>2. /\ task' \in Task /\ task'.at = "take"
      /\ task'.wrapper = task.wrapper /\ task'.from = task.from
  BY DEF DeleteOwn, IInv, TypeInv, Task
<1> QED
  BY <1>1, <1>2, DeleterStep DEF DeleteOwn, Constructing

LEMMA CloseLibraryEffect ==
    ASSUME IInv, fate = "up", NEW d \in Wrappers, CloseLibrary(d)
    PROVE  /\ refs' \in [Libs -> Nat]
           /\ \A l \in Libs :
                  refs[l] = refs'[l] + (IF held[d].dll = l THEN 1 ELSE 0)
<1> USE DEF IInv, UpInv
<1>1. held[d].dll \in Libs \cup {Nil} /\ Nil \notin Libs
  BY KindsDiffer DEF TypeInv, Held
<1>2. CASE held[d].dll = Nil
  BY <1>1, <1>2 DEF CloseLibrary, TypeInv
<1>3. CASE held[d].dll # Nil
  <2>1. held[d].dll \in Libs
    BY <1>1, <1>3
  <2>2. refs[held[d].dll] > 0
    BY <2>1, HeldIsOpen
  <2> QED
    BY <1>3, <2>1, <2>2 DEF CloseLibrary, Closed, TypeInv
<1> QED
  BY <1>2, <1>3

\* Both moves end by handing over, the assignment after d let go of its own.
LEMMA HandOverStep ==
    ASSUME IInv, fate = "up", ~Constructing,
           NEW d \in Wrappers, NEW e \in Wrappers, d # e,
           held[d].module = Nil, CloseLibrary(d), held' = HandOver(d, e),
           fate' = fate, task' = NoTask, result' = result, LogInv', Exists(d)',
           \A w \in Wrappers : Exists(w) => Exists(w)',
           \A i \in Instances : Exists(i)' <=> Exists(i)
    PROVE  IInv'
<1> USE DEF IInv, UpInv
<1>1. /\ refs' \in [Libs -> Nat]
      /\ \A l \in Libs :
             refs[l] = refs'[l] + (IF held[d].dll = l THEN 1 ELSE 0)
  BY CloseLibraryEffect
<1>2. /\ held' \in [Wrappers -> Held]
      /\ held'[d] = held[e]
      /\ held'[e].dll = Nil /\ held'[e].module = Nil
      /\ \A w \in Wrappers \ {d, e} : held'[w] = held[w]
      /\ DeletersAreLoaded'
  BY HandOverEffect
<1>3. TypeInv' /\ ~Constructing'
  BY <1>1, <1>2, NoTaskIsATask DEF TypeInv, Constructing
<1>4. TaskInv' /\ WrapperInv'
  BY <1>2, NoTaskIsATask DEF TaskInv, WrapperInv, Constructing
<1>5. RefsInv'
  <2> SUFFICES ASSUME NEW l \in Libs
               PROVE  refs'[l] = Cardinality(HoldersOf(l)') + 0
    BY <1>3 DEF RefsInv
  <2>1. Cardinality(HoldersOf(l))
        = Cardinality(HoldersOf(l)') + (IF held[d].dll = l THEN 1 ELSE 0)
    BY HandOverCounts
  <2>2. refs[l] = Cardinality(HoldersOf(l)) + 0
    BY DEF RefsInv
  <2>3. Cardinality(HoldersOf(l)') \in Nat /\ Cardinality(HoldersOf(l)) \in Nat
    <3>1. HoldersOf(l)' \subseteq Wrappers
      BY DEF HoldersOf
    <3> QED
      BY <3>1, HoldersAreFinite, ObjectsAssumption, FS_Subset,
         FS_CardinalityType
  <2> HIDE DEF IInv, UpInv
  <2>4. refs'[l] \in Nat
    BY <1>1
  <2> QED
    BY <1>1, <2>1, <2>2, <2>3, <2>4
<1>6. OwnerInv'
  <2>1. \A i \in Instances : Wrapped(i)' <=> Wrapped(i)
    BY <1>2, KindsDiffer DEF Wrapped
  <2>2. \A i \in Instances : \A v, w \in Wrappers :
            held'[v].module = i /\ held'[w].module = i => v = w
    BY <1>2, KindsDiffer DEF OwnerInv
  <2> QED
    BY <1>3, <2>1, <2>2 DEF OwnerInv
<1> QED
  BY <1>2, <1>3, <1>4, <1>5, <1>6

LEMMA MoveConstructStep ==
    ASSUME IInv, NEW d \in Wrappers, NEW e \in Wrappers,
           MoveConstructModule(d, e)
    PROVE  IInv'
<1> USE DEF IInv, UpInv
<1>1. /\ fate = "up" /\ fate' = fate /\ task = NoTask /\ task' = NoTask
      /\ refs' = refs /\ result' = result
      /\ MoveConstruct(d, e) /\ held' = HandOver(d, e)
  BY DEF MoveConstructModule, Free
<1>2. ~Exists(d) /\ Exists(e) /\ d # e /\ label' = Handed(d, e)
  BY <1>1 DEF MoveConstruct
<1>3. LogInv' /\ \A q \in Objects : Exists(q)' <=> q = d \/ Exists(q)
  BY <1>1, <1>2, MoveConstructKeepsLogInv, HandedExists, KindsDiffer DEF LogInv
<1>4. held[d].module = Nil /\ CloseLibrary(d)
  BY <1>1, <1>2 DEF WrapperInv, CloseLibrary
<1>5. ~Constructing
  BY <1>1, NoTaskIsATask DEF Constructing
<1> QED
  BY <1>1, <1>2, <1>3, <1>4, <1>5, HandOverStep, KindsDiffer

LEMMA TakeStep ==
    ASSUME IInv, Take
    PROVE  IInv'
<1> USE DEF IInv, UpInv
<1>1. PICK d : d = task.wrapper
  OBVIOUS
<1>2. PICK e : e = task.from
  OBVIOUS
<1>3. /\ fate = "up" /\ fate' = fate /\ ~Constructing /\ task' = NoTask
      /\ UNCHANGED logVars /\ result' = result
      /\ CloseLibrary(d) /\ held' = HandOver(d, e)
  BY <1>1, <1>2 DEF Take, Constructing
<1>4. /\ d \in Wrappers /\ e \in Wrappers /\ d # e /\ Exists(d)
      /\ held[d].module = Nil
  BY <1>1, <1>2 DEF Take, TaskInv
<1>5. LogInv' /\ \A q \in Objects : Exists(q)' <=> Exists(q)
  BY <1>3, LogUnchanged
<1> QED
  BY <1>3, <1>4, <1>5, HandOverStep, KindsDiffer

LEMMA DropStep ==
    ASSUME IInv, Drop
    PROVE  IInv'
<1> USE DEF IInv, UpInv
<1>1. PICK d : d = task.wrapper
  OBVIOUS
<1>2. /\ fate = "up" /\ fate' = "up" /\ ~Constructing /\ task' = NoTask
      /\ result' = result /\ CloseLibrary(d) /\ Destroy(d)
      /\ held' = [held EXCEPT ![d] = Nothing]
  BY <1>1 DEF Drop, Constructing
<1>3. d \in Wrappers /\ d \in Objects /\ held[d].module = Nil
  BY <1>1, KindsDiffer DEF Drop, TaskInv
<1>4. LogInv' /\ \A q \in Objects : Exists(q)' <=> q # d /\ Exists(q)
  BY <1>2, <1>3, DestroyKeepsLogInv, DestroyExists DEF LogInv
<1>5. /\ refs' \in [Libs -> Nat]
      /\ \A l \in Libs :
             refs[l] = refs'[l] + (IF held[d].dll = l THEN 1 ELSE 0)
  BY <1>2, <1>3, CloseLibraryEffect
<1>6. /\ held' \in [Wrappers -> Held]
      /\ held'[d].dll = Nil /\ held'[d].module = Nil
      /\ \A w \in Wrappers \ {d} : held'[w] = held[w]
  BY <1>2, <1>3 DEF TypeInv, Held, Nothing
<1>7. TypeInv' /\ ~Constructing'
  BY <1>2, <1>5, <1>6, NoTaskIsATask DEF TypeInv, Constructing
<1>8. DeletersAreLoaded' /\ TaskInv' /\ WrapperInv'
  BY <1>2, <1>3, <1>4, <1>6, NoTaskIsATask, KindsDiffer
  DEF DeletersAreLoaded, TaskInv, WrapperInv, Constructing
<1>9. RefsInv'
  <2> SUFFICES ASSUME NEW l \in Libs
               PROVE  refs'[l] = Cardinality(HoldersOf(l)') + 0
    BY <1>7 DEF RefsInv
  <2>1. HoldersOf(l)' = HoldersOf(l) \ {d}
    BY <1>3, <1>6, KindsDiffer DEF HoldersOf
  <2>2. d \in HoldersOf(l) <=> held[d].dll = l
    BY <1>3 DEF HoldersOf
  <2>3. refs[l] = Cardinality(HoldersOf(l)) + 0
    BY <1>2 DEF RefsInv
  <2>4. /\ Cardinality(HoldersOf(l)) \in Nat
        /\ Cardinality(HoldersOf(l) \ {d}) =
               IF d \in HoldersOf(l) THEN Cardinality(HoldersOf(l)) - 1
                                     ELSE Cardinality(HoldersOf(l))
    BY HoldersAreFinite, FS_RemoveElement
  <2>5. refs'[l] \in Nat
    BY <1>5
  <2> HIDE DEF IInv, UpInv
  <2> QED
    BY <1>5, <2>1, <2>2, <2>3, <2>4, <2>5
<1>10. OwnerInv'
  <2>1. \A i \in Instances : Wrapped(i)' <=> Wrapped(i)
    BY <1>3, <1>6, KindsDiffer DEF Wrapped
  <2>2. \A i \in Instances : Exists(i)' <=> Exists(i)
    BY <1>3, <1>4, KindsDiffer
  <2>3. \A i \in Instances : \A v, w \in Wrappers :
            held'[v].module = i /\ held'[w].module = i => v = w
    BY <1>2, <1>6, KindsDiffer DEF OwnerInv
  <2> QED
    BY <1>2, <1>7, <2>1, <2>2, <2>3 DEF OwnerInv
<1> QED
  BY <1>4, <1>7, <1>8, <1>9, <1>10

LEMMA MoveAssignStep ==
    ASSUME IInv, NEW d \in Wrappers, NEW e \in Wrappers, MoveAssignModule(d, e)
    PROVE  IInv'
<1> USE DEF IInv, UpInv
<1>1. /\ fate = "up" /\ ~Constructing /\ held' = held /\ refs' = refs
      /\ result' = result /\ d # e /\ Exists(d) /\ Exists(e)
  BY NoTaskIsATask
  DEF MoveAssignModule, MoveAssign, Free, Constructing
<1>2. /\ task' \in Task /\ task'.at = "assign"
      /\ task'.wrapper = d /\ task'.from = e
  BY DEF MoveAssignModule, NoTask, Task
<1>3. CASE /\ RemoveSink(label[d]) /\ label' = Handed(d, e)
           /\ UNCHANGED <<shared, fate>>
  <2>1. LogInv'
    BY <1>1, <1>3, MoveAssignKeepsLogInv, KindsDiffer DEF Exists
  <2>2. \A q \in Objects : Exists(q)' <=> Exists(q)
    BY <1>1, <1>3, HandedExists, KindsDiffer DEF LogInv
  <2>3. TypeInv' /\ DeletersAreLoaded' /\ ~Constructing'
    BY <1>1, <1>2, <1>3 DEF TypeInv, DeletersAreLoaded, Constructing
  <2>4. TaskInv' /\ WrapperInv'
    BY <1>1, <1>2, <2>2, <2>3, KindsDiffer
    DEF TaskInv, WrapperInv, Constructing
  <2>5. RefsInv'
    BY <1>1, <2>3 DEF RefsInv, HoldersOf
  <2>6. OwnerInv'
    <3>1. \A i \in Instances : Exists(i)' <=> Exists(i)
      BY <2>2, KindsDiffer
    <3> QED
      BY <1>1, <2>3, <3>1 DEF OwnerInv, Wrapped
  <2> QED
    BY <2>1, <2>3, <2>4, <2>5, <2>6
<1>4. CASE fate' = "undefined" /\ UNCHANGED logVars
  <2>1. LogInv'
    BY <1>4, LogUnchanged
  <2>2. TypeInv' /\ DeletersAreLoaded'
    BY <1>1, <1>2, <1>4 DEF TypeInv, DeletersAreLoaded
  <2> QED
    BY <1>4, <2>1, <2>2
<1> QED
  BY <1>3, <1>4 DEF MoveAssignModule, MoveAssign

LEMMA OtherStep ==
    ASSUME IInv, Other
    PROVE  IInv'
<1> USE DEF IInv
<1>1. fate = "up" /\ UNCHANGED <<held, refs, task, result>>
  BY DEF Other, Free
<1>2. PICK o \in Others :
          \/ \E k \in OtherKey : Construct(o, k) /\ UNCHANGED fate
          \/ Destroy(o) /\ UNCHANGED fate
          \/ \E p \in Others : \/ MoveConstruct(o, p) /\ UNCHANGED fate
                               \/ MoveAssign(o, p)
  BY DEF Other
<1>3. o \in Objects /\ o \notin Wrappers /\ o \notin Instances
  BY KindsDiffer
<1>4. /\ LogInv' /\ fate' \in {"up", "undefined"}
      /\ \A q \in Objects : q # o => (Exists(q)' <=> Exists(q))
  <2>1. CASE \E k \in OtherKey : Construct(o, k) /\ UNCHANGED fate
    BY <1>1, <1>3, <2>1, KeysOfModules, ConstructKeepsLogInv, ConstructExists
    DEF LogInv
  <2>2. CASE Destroy(o) /\ UNCHANGED fate
    BY <1>1, <1>3, <2>2, DestroyKeepsLogInv, DestroyExists DEF LogInv
  <2>3. CASE \E p \in Others : MoveConstruct(o, p) /\ UNCHANGED fate
    <3>1. PICK p \in Others : MoveConstruct(o, p) /\ UNCHANGED fate
      BY <2>3
    <3>2. /\ p \in Objects /\ o # p /\ Exists(p) /\ label' = Handed(o, p)
      BY <3>1, KindsDiffer DEF MoveConstruct
    <3> QED
      BY <1>1, <1>3, <3>1, <3>2, MoveConstructKeepsLogInv, HandedExists
      DEF LogInv
  <2>4. CASE \E p \in Others : MoveAssign(o, p)
    <3>1. PICK p \in Others : MoveAssign(o, p)
      BY <2>4
    <3>2. p \in Objects /\ o # p /\ Exists(o) /\ Exists(p)
      BY <3>1, KindsDiffer DEF MoveAssign
    <3>3. CASE /\ RemoveSink(label[o]) /\ label' = Handed(o, p)
               /\ UNCHANGED <<shared, fate>>
      BY <1>1, <1>3, <3>2, <3>3, MoveAssignKeepsLogInv, HandedExists
      DEF LogInv, Exists
    <3>4. CASE fate' = "undefined" /\ UNCHANGED logVars
      BY <3>4, LogUnchanged
    <3> QED
      BY <3>1, <3>3, <3>4 DEF MoveAssign
  <2> QED
    BY <1>2, <2>1, <2>2, <2>3, <2>4
<1>5. /\ \A q \in Wrappers : Exists(q) => Exists(q)'
      /\ \A q \in Instances : Exists(q)' <=> Exists(q)
  BY <1>3, <1>4, KindsDiffer
<1> QED
  BY <1>1, <1>4, <1>5, LogStep DEF TypeInv

LEMMA InvStep == IInv /\ [DynNext]_dynVars => IInv'
<1> SUFFICES ASSUME IInv, [DynNext]_dynVars PROVE IInv'
  OBVIOUS
<1>1. CASE UNCHANGED dynVars
  <2>1. LogInv' /\ \A q \in Objects : Exists(q)' <=> Exists(q)
    BY <1>1, LogUnchanged DEF dynVars, IInv
  <2>2. CASE fate = "up"
    BY <1>1, <2>1, <2>2, KindsDiffer, LogStep DEF dynVars, IInv, TypeInv
  <2>3. CASE fate # "up"
    BY <1>1, <2>1, <2>3 DEF dynVars, IInv, TypeInv, DeletersAreLoaded
  <2> QED
    BY <2>2, <2>3
<1>2. CASE DynNext
  BY <1>2, FailedLoadStep, CallFactoryStep, ConstructorThrowsStep, WrapStep,
     BeginDestroyStep, DropStep, MoveConstructStep, MoveAssignStep,
     DeleteOwnStep, TakeStep, OtherStep DEF DynNext
<1> QED
  BY <1>1, <1>2

LEMMA Invariance == DynSpec => []IInv
<1> QED
  BY InvStart, InvStep, PTL DEF DynSpec

-----------------------------------------------------------------------------

\* Every variable keeps to its type; refs and core never fall below zero.
THEOREM TypeCorrect == DynSpec => []DynTypeOK
<1>1. IInv => DynTypeOK
  BY DEF IInv, LogInv, TypeInv, DynTypeOK
<1> QED
  BY <1>1, Invariance, PTL

\* Every dlopen() is matched by one dlclose() in time, whatever failed or was
\* moved: between calls a library has the handles its wrappers hold, no others.
THEOREM HandlesAreBalanced == DynSpec => []HandlesBalanced
<1>1. IInv => HandlesBalanced
  <2> SUFFICES ASSUME IInv, Free, NEW l \in Libs
               PROVE  refs[l] = Cardinality(HoldersOf(l))
    BY DEF HandlesBalanced
  <2>1. refs[l] = Cardinality(HoldersOf(l)) + 0
    BY NoTaskIsATask DEF IInv, UpInv, RefsInv, Constructing, Free
  <2>2. Cardinality(HoldersOf(l)) \in Nat
    BY HoldersAreFinite
  <2> QED
    BY <2>1, <2>2
<1> QED
  BY <1>1, Invariance, PTL

\* Between calls every module has exactly one wrapper, which will delete it.
THEOREM ModulesHaveOneWrapper == DynSpec => []EachModuleHasOneWrapper
<1>1. IInv => EachModuleHasOneWrapper
  <2> SUFFICES ASSUME IInv, Free, NEW i \in Instances
               PROVE  /\ Exists(i) <=> Wrapped(i)
                      /\ \A d, e \in Wrappers :
                             held[d].module = i /\ held[e].module = i => d = e
    BY DEF EachModuleHasOneWrapper, Wrapped
  <2> QED
    BY NoTaskIsATask DEF IInv, UpInv, OwnerInv, Constructing, Free
<1> QED
  BY <1>1, Invariance, PTL

\* No deleter is ever called in a library that is not loaded.
THEOREM DeletersAreAlwaysLoaded == DynSpec => []DeletersAreLoaded
<1>1. IInv => DeletersAreLoaded
  BY DEF IInv
<1> QED
  BY <1>1, Invariance, PTL

\* Through constructions, moves and destructions of all kinds of objects, and
\* but for the names of the frontend's own clients, which get no sink: each pair
\* of a folder and a name that one object at a time has had has one sink while an
\* object has it, else none; no object of any pair is without a sink; and
\* removeSink() never takes from the core what is not there.
THEOREM SinksAlwaysMatchObjects == DynSpec => []SinksMatchObjects
<1>1. IInv => SinksMatchObjects
  BY LogInvMatches DEF IInv
<1> QED
  BY <1>1, Invariance, PTL

-----------------------------------------------------------------------------
(***************************************************************************)
(* The refinement.                                                         *)
(***************************************************************************)

LEMMA CountsAreUses ==
    ASSUME NEW l
    PROVE  Cardinality(HoldersOf(l)) > 0 <=> \E d \in Wrappers : held[d].dll = l
<1>1. /\ IsFiniteSet(HoldersOf(l)) /\ Cardinality(HoldersOf(l)) \in Nat
      /\ Cardinality(HoldersOf(l)) = 0 <=> HoldersOf(l) = {}
  BY HoldersAreFinite, FS_EmptySet
<1>2. HoldersOf(l) # {} <=> \E d \in Wrappers : held[d].dll = l
  BY DEF HoldersOf
<1> QED
  BY <1>1, <1>2

\* While the program is up, counting the handles tells who needs a library.
LEMMA LoadedMeansInUse == IInv /\ fate = "up" => Loaded = Keeping!InUse
<1> SUFFICES ASSUME IInv, fate = "up", NEW l \in Libs
             PROVE  refs[l] > 0 <=> \/ Maker = l
                                    \/ \E d \in Wrappers : held[d].dll = l
  BY DEF Loaded, Keeping!InUse, LibraryOf
<1>1. refs[l] = Cardinality(HoldersOf(l))
                + (IF Constructing /\ task.dll = l THEN 1 ELSE 0)
  BY DEF IInv, UpInv, RefsInv
<1>2. Cardinality(HoldersOf(l)) \in Nat
  BY HoldersAreFinite
<1>3. Maker = l <=> Constructing /\ task.dll = l
  BY KindsDiffer DEF Maker, Constructing
<1>4. Cardinality(HoldersOf(l)) > 0 <=> \E d \in Wrappers : held[d].dll = l
  BY CountsAreUses
<1> QED
  BY <1>1, <1>2, <1>3, <1>4

\* What a step has to do to be one of Keeping's while the program is up.
LEMMA StepOfKeeping ==
    ASSUME IInv', fate = "up", fate' = "up",
           \/ \E l \in Libs : Keeping!Make(l)
           \/ \E h \in Wrappers : \/ Keeping!Delete(h) \/ Keeping!LetGo(h)
                                  \/ \E m \in Instances : Keeping!Give(h, m)
                                  \/ \E g \in Wrappers : Keeping!Hand(g, h)
    PROVE  Keeping!Next
<1>1. Loaded' = Keeping!InUse'
  <2>1. (IInv /\ fate = "up" => Loaded = Keeping!InUse)'
    BY LoadedMeansInUse, PTL
  <2> QED
    BY <2>1
<1>2. (fate' # "up") = FALSE /\ ~(fate # "up")
  OBVIOUS
<1> QED
  BY <1>1, <1>2, Zenon DEF Keeping!Next

\* A step that changes neither a wrapper, nor a handle, nor the maker.
LEMMA StutterOfKeeping ==
    ASSUME held' = held, refs' = refs, Maker' = Maker, fate' = fate
    PROVE  UNCHANGED Keeping!keeperVars
<1>1. ModuleOf' = ModuleOf /\ LibraryOf' = LibraryOf /\ Loaded' = Loaded
  BY DEF ModuleOf, LibraryOf, Loaded
<1>2. (fate # "up")' = (fate # "up")
  OBVIOUS
<1> QED
  BY <1>1, <1>2, Zenon DEF Keeping!keeperVars

\* The program ends, in a factory or elsewhere.
LEMMA EndOfKeeping ==
    ASSUME fate = "up", fate' # "up", held' = held, Maker' = Nil,
           Loaded' = Loaded \/ Loaded' = Keeping!InUse'
    PROVE  Keeping!Next
<1>1. ModuleOf' = ModuleOf /\ LibraryOf' = LibraryOf
  BY DEF ModuleOf, LibraryOf
<1>2. (fate' # "up") = TRUE /\ ~(fate # "up")
  OBVIOUS
<1>3. Loaded' \in {Loaded, Keeping!InUse'}
  OBVIOUS
<1> QED
  BY <1>1, <1>2, <1>3, Zenon DEF Keeping!Next, Keeping!End

LEMMA NoMaker ==
    /\ task.at # "construct" => Maker = Nil
    /\ task'.at # "construct" => Maker' = Nil
    /\ task' = NoTask => Maker' = Nil
  BY NoTaskIsATask DEF Maker

LEMMA FactoryOfKeeping ==
    ASSUME IInv, IInv', NEW l \in Libs, NEW i \in Instances, CallFactory(l, i)
    PROVE  Keeping!Next
<1>1. /\ fate = "up" /\ fate' = "up" /\ held' = held /\ task = NoTask
      /\ task'.at = "construct" /\ task'.dll = l
  BY DEF CallFactory, Free, NoTask
<1>2. Maker = Nil /\ Maker' = l
  BY <1>1, NoMaker, NoTaskIsATask DEF Maker
<1>3. ModuleOf' = ModuleOf /\ LibraryOf' = LibraryOf
  BY <1>1 DEF ModuleOf, LibraryOf
<1>4. Keeping!Make(l)
  BY <1>2, <1>3 DEF Keeping!Make
<1> QED
  BY <1>1, <1>4, StepOfKeeping

LEMMA ThrowsOfKeeping ==
    ASSUME IInv, ConstructorThrows
    PROVE  Keeping!Next
<1>1. /\ fate = "up" /\ fate' # "up" /\ held' = held /\ task' = NoTask
      /\ Constructing
      /\ refs' = refs \/ refs' = Closed(task.dll)
  BY DEF ConstructorThrows, Constructing
<1>2. Maker' = Nil
  BY <1>1, NoMaker
<1>3. CASE refs' = refs
  BY <1>1, <1>2, <1>3, EndOfKeeping DEF Loaded
<1>4. CASE refs' = Closed(task.dll)
  <2>1. ASSUME NEW l \in Libs
        PROVE  refs'[l] > 0 <=> \E d \in Wrappers : held[d].dll = l
    <3>1. refs'[l] = Cardinality(HoldersOf(l))
      <4>1. /\ refs[l] = Cardinality(HoldersOf(l))
                         + (IF task.dll = l THEN 1 ELSE 0)
            /\ refs \in [Libs -> Nat] /\ task.dll \in Libs
        BY <1>1 DEF IInv, UpInv, RefsInv, TypeInv, TaskInv
      <4>2. Cardinality(HoldersOf(l)) \in Nat
        BY HoldersAreFinite
      <4>3. refs'[l] = IF task.dll = l THEN refs[l] - 1 ELSE refs[l]
        BY <1>4, <4>1 DEF Closed
      <4> QED
        BY <4>1, <4>2, <4>3
    <3> QED
      BY <3>1, CountsAreUses
  <2>2. Loaded' = Keeping!InUse'
    BY <1>1, <1>2, <2>1, KindsDiffer DEF Loaded, Keeping!InUse, LibraryOf
  <2> QED
    BY <1>1, <1>2, <2>2, EndOfKeeping
<1> QED
  BY <1>1, <1>3, <1>4

LEMMA WrapOfKeeping ==
    ASSUME IInv, IInv', NEW d \in Wrappers, Wrap(d)
    PROVE  Keeping!Next
<1> DEFINE l == task.dll  i == task.module
<1>1. /\ fate = "up" /\ fate' = "up" /\ Constructing /\ task' = NoTask
      /\ held' = [held EXCEPT ![d] = [dll |-> l, module |-> i, deleter |-> l]]
      /\ ~Exists(d)
  BY DEF Wrap, Constructing, Construct
<1>2. /\ l \in Libs /\ i \in Instances
      /\ held[d].dll = Nil /\ held[d].module = Nil
      /\ \A e \in Wrappers : held[e].module # i
      /\ held \in [Wrappers -> Held]
  BY <1>1 DEF IInv, UpInv, TaskInv, WrapperInv, OwnerInv, Wrapped, TypeInv
<1>3. Maker = l /\ Maker # Nil /\ Maker' = Nil
  BY <1>1, <1>2, KindsDiffer, NoMaker DEF Maker, Constructing
<1>4. /\ ModuleOf' = [ModuleOf EXCEPT ![d] = i]
      /\ LibraryOf' = [LibraryOf EXCEPT ![d] = l]
  BY <1>1, <1>2 DEF ModuleOf, LibraryOf
<1>5. Keeping!Give(d, i)
  <2>1. ModuleOf[d] = Nil /\ LibraryOf[d] = Nil
        /\ \A g \in Wrappers : ModuleOf[g] # i
    BY <1>2 DEF ModuleOf, LibraryOf
  <2> QED
    BY <1>3, <1>4, <2>1 DEF Keeping!Give
<1> QED
  BY <1>1, <1>2, <1>5, StepOfKeeping

LEMMA DeleterOfKeeping ==
    ASSUME IInv, IInv', fate = "up", ~Constructing, ~Constructing',
           NEW d \in Wrappers, CallDeleter(d), refs' = refs
    PROVE  [Keeping!Next]_(Keeping!keeperVars)
<1>1. Maker = Nil /\ Maker' = Nil
  BY NoMaker DEF Constructing
<1>2. fate' = "up"
  BY CallDeleterEffect
<1>3. CASE held' = held
  BY <1>1, <1>2, <1>3, StutterOfKeeping
<1>4. CASE /\ held[d].module # Nil /\ refs[held[d].deleter] > 0
           /\ held' = [held EXCEPT ![d].module = Nil]
  <2>1. /\ held \in [Wrappers -> Held]
        /\ held[d].deleter = held[d].dll /\ held[d].dll \in Libs
    BY <1>4 DEF IInv, TypeInv, DeletersAreLoaded, Held
  <2>2. /\ ModuleOf' = [ModuleOf EXCEPT ![d] = Nil]
        /\ LibraryOf' = LibraryOf
    BY <1>4, <2>1 DEF ModuleOf, LibraryOf, Held
  <2>3. ModuleOf[d] # Nil /\ LibraryOf[d] \in Loaded
    BY <1>4, <2>1 DEF ModuleOf, LibraryOf, Loaded
  <2>4. Keeping!Delete(d)
    BY <1>1, <2>2, <2>3 DEF Keeping!Delete
  <2> QED
    BY <1>2, <2>4, StepOfKeeping
<1> QED
  BY <1>2, <1>3, <1>4 DEF CallDeleter

LEMMA HandOverOfKeeping ==
    ASSUME IInv, IInv', fate = "up", fate' = "up", ~Constructing, ~Constructing',
           NEW d \in Wrappers, NEW e \in Wrappers, d # e,
           held[d].module = Nil, held' = HandOver(d, e)
    PROVE  Keeping!Next
<1>1. /\ held' \in [Wrappers -> Held] /\ held \in [Wrappers -> Held]
      /\ held'[d] = held[e]
      /\ held'[e].dll = Nil /\ held'[e].module = Nil
      /\ \A w \in Wrappers \ {d, e} : held'[w] = held[w]
  BY HandOverEffect DEF IInv, TypeInv
<1>2. /\ ModuleOf' = [ModuleOf EXCEPT ![d] = ModuleOf[e], ![e] = Nil]
      /\ LibraryOf' = [LibraryOf EXCEPT ![d] = LibraryOf[e], ![e] = Nil]
  BY <1>1 DEF ModuleOf, LibraryOf
<1>3. Maker' = Maker
  BY NoMaker DEF Constructing
<1>4. ModuleOf[d] = Nil
  BY DEF ModuleOf
<1>5. Keeping!Hand(e, d)
  BY <1>2, <1>3, <1>4 DEF Keeping!Hand
<1> QED
  BY <1>5, StepOfKeeping

LEMMA DropOfKeeping ==
    ASSUME IInv, IInv', Drop
    PROVE  Keeping!Next
<1>1. PICK d : d = task.wrapper
  OBVIOUS
<1>2. /\ fate = "up" /\ fate' = "up" /\ task' = NoTask /\ task.at = "drop"
      /\ held' = [held EXCEPT ![d] = Nothing]
  BY <1>1 DEF Drop
<1>3. /\ d \in Wrappers /\ held[d].module = Nil
      /\ held \in [Wrappers -> Held]
  BY <1>1, <1>2 DEF IInv, UpInv, TaskInv, TypeInv
<1>4. /\ ModuleOf' = ModuleOf /\ LibraryOf' = [LibraryOf EXCEPT ![d] = Nil]
      /\ ModuleOf[d] = Nil
  BY <1>2, <1>3 DEF ModuleOf, LibraryOf, Nothing
<1>5. Maker' = Maker
  BY <1>2, NoMaker
<1>6. Keeping!LetGo(d)
  BY <1>4, <1>5 DEF Keeping!LetGo
<1> QED
  BY <1>2, <1>3, <1>6, StepOfKeeping

\* Calls of the log, alone or at the begin of an assignment, and failed loads.
LEMMA LogOfKeeping ==
    ASSUME Free, UNCHANGED <<held, refs>>, task'.at # "construct",
           fate' = fate \/ fate' # "up"
    PROVE  [Keeping!Next]_(Keeping!keeperVars)
<1>1. fate = "up" /\ Maker = Nil /\ Maker' = Nil /\ Loaded' = Loaded
  BY NoMaker, NoTaskIsATask DEF Free, Loaded
<1> QED
  BY <1>1, StutterOfKeeping, EndOfKeeping

(***************************************************************************)
(* Each wrapper keeps its module and the library of it as ModuleKeepers    *)
(* says: through all failures and in every state, between calls or in the  *)
(* midst of one, the library of whoever has a module is loaded, and none   *)
(* is loaded that nobody needs.                                            *)
(***************************************************************************)
THEOREM ImplementsKeepers == DynSpec => KeepsModules
<1>1. DynInit => Keeping!Init
  <2> SUFFICES ASSUME DynInit
               PROVE  Keeping!Init
    OBVIOUS
  <2>1. /\ ModuleOf = [d \in Wrappers |-> Nil]
        /\ LibraryOf = [d \in Wrappers |-> Nil]
        /\ Maker = Nil /\ Loaded = {}
    BY NoTaskIsATask
    DEF DynInit, ModuleOf, LibraryOf, Maker, Loaded, Nothing
  <2>2. (fate # "up") = FALSE
    BY DEF DynInit
  <2> QED
    BY <2>1, <2>2, Zenon DEF Keeping!Init
<1>2. IInv /\ IInv' /\ [DynNext]_dynVars => [Keeping!Next]_(Keeping!keeperVars)
  <2> SUFFICES ASSUME IInv, IInv', [DynNext]_dynVars
               PROVE  [Keeping!Next]_(Keeping!keeperVars)
    OBVIOUS
  <2>1. CASE OpenFails \/ (\E l \in Libs : LacksFunction(l)) \/ Other
             \/ \E d, e \in Wrappers : MoveAssignModule(d, e)
    <3>1. Free /\ UNCHANGED <<held, refs>> /\ task'.at # "construct"
      BY <2>1, NoTaskIsATask
      DEF OpenFails, LacksFunction, Other, MoveAssignModule, Free, NoTask
    <3>2. fate' = fate \/ fate' # "up"
      BY <3>1 DEF Free
    <3> QED
      BY <3>1, <3>2, LogOfKeeping
  <2>2. CASE \E l \in Libs, i \in Instances : CallFactory(l, i)
    BY <2>2, FactoryOfKeeping
  <2>3. CASE ConstructorThrows
    BY <2>3, ThrowsOfKeeping
  <2>4. CASE \E d \in Wrappers : Wrap(d)
    BY <2>4, WrapOfKeeping
  <2>5. ASSUME NEW d \in Wrappers, BeginDestroy(d)
        PROVE  [Keeping!Next]_(Keeping!keeperVars)
    <3>1. /\ fate = "up" /\ CallDeleter(d) /\ refs' = refs
          /\ ~Constructing /\ ~Constructing'
      BY <2>5, NoTaskIsATask DEF BeginDestroy, Free, Constructing, NoTask
    <3> QED
      BY <3>1, DeleterOfKeeping
  <2>6. CASE DeleteOwn
    <3>1. /\ fate = "up" /\ CallDeleter(task.wrapper) /\ refs' = refs
          /\ ~Constructing /\ ~Constructing' /\ task.wrapper \in Wrappers
      BY <2>6
      DEF DeleteOwn, Constructing, IInv, UpInv, TaskInv, TypeInv, Task
    <3> QED
      BY <3>1, DeleterOfKeeping
  <2>7. ASSUME NEW d \in Wrappers, NEW e \in Wrappers, MoveConstructModule(d, e)
        PROVE  Keeping!Next
    <3>1. /\ fate = "up" /\ fate' = "up" /\ d # e
          /\ ~Constructing /\ ~Constructing' /\ held' = HandOver(d, e)
          /\ ~Exists(d)
      BY <2>7, NoTaskIsATask
      DEF MoveConstructModule, MoveConstruct, Free, Constructing
    <3>2. held[d].module = Nil
      BY <3>1 DEF IInv, UpInv, WrapperInv
    <3> QED
      BY <3>1, <3>2, HandOverOfKeeping
  <2>8. CASE Take
    <3>1. /\ fate = "up" /\ fate' = "up" /\ ~Constructing /\ ~Constructing'
          /\ held' = HandOver(task.wrapper, task.from)
      BY <2>8, NoTaskIsATask DEF Take, Constructing
    <3>2. /\ task.wrapper \in Wrappers /\ task.from \in Wrappers
          /\ task.wrapper # task.from /\ held[task.wrapper].module = Nil
      BY <2>8 DEF Take, IInv, UpInv, TaskInv
    <3> QED
      BY <3>1, <3>2, HandOverOfKeeping
  <2>9. CASE Drop
    BY <2>9, DropOfKeeping
  <2>10. CASE UNCHANGED dynVars
    BY <2>10, StutterOfKeeping DEF dynVars, Maker
  <2> QED
    BY <2>1, <2>2, <2>3, <2>4, <2>5, <2>6, <2>7, <2>8, <2>9, <2>10 DEF DynNext
<1> QED
  BY <1>1, <1>2, Invariance, PTL DEF DynSpec, KeepsModules, Keeping!Spec

=============================================================================
