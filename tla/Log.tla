-------------------------------- MODULE Log ---------------------------------
(***************************************************************************)
(* The log frontend and the Log::Loggable objects that use it.             *)
(*                                                                         *)
(* A sink is a file that receives the messages of one folder and name: all *)
(* sinks of a pair are alike, so Boost's core is a count of them.  The     *)
(* frontend remembers at most one sink of a pair, in availableSinks.  Its  *)
(* functions hold a mutex and are atomic.                                  *)
(*                                                                         *)
(* Folders and names are compared only.  folderize() leaves the empty      *)
(* folder as it is, so a pair with folder "" is the bare name.             *)
(***************************************************************************)
EXTENDS Integers

CONSTANTS
    Objects,    \* the Loggable objects
    Folders,    \* the folders they are given
    Names,      \* the names they are given
    OwnNames,   \* the frontend's own clients: "Log", and "Global" with NAO_DEBUG
    MaxSinks,   \* bound: the sinks of one pair the core may come to hold
    Nil

ASSUME LabelAssumption == /\ "" \notin Folders \cup Names
                          /\ Nil \notin (Folders \cup {""}) \X (Names \cup {""})
ASSUME OwnNamesAssumption == OwnNames \subseteq Names
ASSUME SinksAssumption == MaxSinks \in Nat \ {0}

VARIABLES
    label,    \* [Objects -> Key or Nil]: folder_ and name_, Nil if no object
    clients,  \* the keys of availableSinks
    core,     \* [Key -> Nat]: the sinks in Boost's core
    shared,   \* history: the pairs two objects have had at a time
    fate      \* "up", or why the program ended

logVars == <<label, clients, core, shared>>

Key == (Folders \cup {""}) \X (Names \cup {""})

Unnamed == <<"", "">>  \* what a move leaves behind

ClientKey == Folders \X Names

LogTypeOK ==
    /\ label \in [Objects -> Key \cup {Nil}]
    /\ clients \subseteq Key
    /\ core \in [Key -> Nat]
    /\ shared \subseteq ClientKey

Own == {""} \X OwnNames

\* After Log::init().
LogInit ==
    /\ label = [o \in Objects |-> Nil]
    /\ clients = Own
    /\ core = [k \in Key |-> IF k \in Own THEN 1 ELSE 0]
    /\ shared = {}

Exists(o) == label[o] # Nil

Holders(k) == {o \in Objects : label[o] = k}

-----------------------------------------------------------------------------
(***************************************************************************)
(* The frontend.                                                           *)
(***************************************************************************)

\* The client is looked up by its bare name.
Found(k) == <<"", k[2]>> \in clients

\* A sink that is there already is forgotten, and stays in the core.
MakeSink(k) ==
    \/ Found(k) /\ UNCHANGED <<clients, core>>
    \/ /\ ~Found(k) /\ core[k] < MaxSinks
       /\ clients' = clients \cup {k}
       /\ core' = [core EXCEPT ![k] = @ + 1]

RemoveSink(k) ==
    \/ k \notin clients /\ UNCHANGED <<clients, core>>
    \/ /\ k \in clients
       /\ clients' = clients \ {k}
       /\ core' = [core EXCEPT ![k] = @ - 1]

-----------------------------------------------------------------------------
(***************************************************************************)
(* The four special members of a Loggable.                                 *)
(***************************************************************************)

Construct(o, k) ==
    /\ ~Exists(o)
    /\ MakeSink(k)
    /\ label' = [label EXCEPT ![o] = k]
    /\ shared' = IF Holders(k) = {} THEN shared ELSE shared \cup {k}

Destroy(o) ==
    /\ Exists(o)
    /\ RemoveSink(label[o])
    /\ label' = [label EXCEPT ![o] = Nil]
    /\ UNCHANGED shared

\* Mutant of Handed: the source keeps its name.
HandedCopy(to, from) == [label EXCEPT ![to] = label[from]]

Handed(to, from) == [label EXCEPT ![to] = label[from], ![from] = Unnamed]

MoveConstruct(to, from) ==
    /\ ~Exists(to) /\ Exists(from)
    /\ label' = Handed(to, from)
    /\ UNCHANGED <<clients, core, shared>>

(***************************************************************************)
(* The assignment closes the target's own sink.  It ends without returning *)
(* what it is declared to return: it comes back in the default, debug      *)
(* build, and anything may happen in another.                              *)
(***************************************************************************)
MoveAssign(to, from) ==
    /\ Exists(to) /\ Exists(from) /\ to # from
    /\ \/ /\ RemoveSink(label[to])
          /\ label' = Handed(to, from)
          /\ UNCHANGED <<shared, fate>>
       \/ fate' = "undefined" /\ UNCHANGED logVars

-----------------------------------------------------------------------------

(***************************************************************************)
(* A sink is made for a client and removed with it: each pair of folder    *)
(* and name has one sink while an object has it, through moves and         *)
(* whatever becomes of the other objects, and none after.  This and the    *)
(* next leave out the names of the frontend's own clients, about which     *)
(* see ClientsDoNotCollide; this one also the pairs that two objects have  *)
(* had at a time.                                                          *)
(***************************************************************************)
OneSinkEach ==
    \A k \in ClientKey \ shared :
        k[2] \notin OwnNames => core[k] = IF Holders(k) # {} THEN 1 ELSE 0

(***************************************************************************)
(* No object is without a sink to write to: what the destructor of another *)
(* one of its folder and name takes from the core is never the last.       *)
(***************************************************************************)
EachObjectHasSink ==
    \A k \in ClientKey :
        Holders(k) # {} /\ k[2] \notin OwnNames => core[k] > 0

(***************************************************************************)
(* Of any pair at all, a sink that availableSinks remembers is in the      *)
(* core, where removeSink() is going to look for it.                       *)
(***************************************************************************)
RememberedSinksExist == \A k \in clients : core[k] > 0

\* All three: Boost's core, availableSinks and the objects there are agree.
SinksMatchObjects == OneSinkEach /\ EachObjectHasSink /\ RememberedSinksExist

(***************************************************************************)
(* "Clients are registered and deregistered on a name-folder way, so that  *)
(* identically named clients will not collide as long as their folder is   *)
(* different": a pair that only one object has had has a sink.  makeSink() *)
(* looks for the bare name, so an object that is called as one of the      *)
(* frontend's own clients, in whatever folder, gets none.                  *)
(***************************************************************************)
ClientsDoNotCollide ==
    \A k \in ClientKey \ shared : Holders(k) # {} => core[k] = 1

=============================================================================
