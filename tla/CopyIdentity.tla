---------------------------- MODULE CopyIdentity ----------------------------
(***************************************************************************)
(* Copies are new objects: the server hears of each new file from the node *)
(* monitor and takes the identity (SEN:ID, lists, relations) from all but  *)
(* the oldest of the files that share an id (server/SenServer.cpp).        *)
(*                                                                         *)
(* The users of the volume (file managers) create, rename, delete and copy *)
(* files at any time, also between two steps of the server.  A copy is     *)
(* made attribute by attribute, after its entry; it gets the creation time *)
(* of its source last, if at all.  The events wait in the queue of the     *)
(* looper, and are about names: by the time one is handled the name may    *)
(* mean another file, or none.                                             *)
(***************************************************************************)
EXTENDS Naturals, FiniteSets, SequencesExt

CONSTANTS Nodes,        \* the inode numbers
          Names,        \* the names of files
          Ids,          \* the ids that can be made
          NoNode,       \* a name without file
          NoId,         \* a file without id (or without relations)
          Refusing,     \* the files of which removing an attribute may fail
          MaxCreated,   \* bound: how many files are made
          MaxRestarts   \* bound: how often the server ends

ASSUME CopyAssumption ==
  /\ Nodes \subseteq Nat
  /\ IsFiniteSet(Names)
  /\ NoNode \notin Nodes
  /\ NoId \notin Ids
  /\ Refusing \subseteq Nodes
  /\ MaxCreated \in Nat
  /\ MaxRestarts \in Nat

VARIABLES
  \* the volume
  entry,     \* the file of each name, or NoNode
  node,      \* its SEN:ID, the id for which its relations were stored, its creation time
  source,    \* the file that it is being copied from, or NoNode
  left,      \* what is left to copy
  created,   \* how many files were made; the creation time of the last one
  \* the server
  running,
  events,    \* the names of the events B_ENTRY_CREATED that wait
  victims,   \* the names of the copies that still have to lose their identity
  oldest,    \* the creation time of the file that keeps the id of the victims
  restarts,
  \* history
  origin,    \* the file for which an id was made (NoNode: not made, or the file is gone)
  copies,    \* the files that are copies
  missed,    \* the copies that the server had no chance to find, or to change
  moved      \* the files that were renamed while the server handled an event

volume == <<entry, node, source, left, created>>
server == <<running, events, victims, oldest, restarts>>
history == <<origin, copies, missed, moved>>
vars == <<volume, server, history>>

Attributes == {"id", "links"}

NoAttributes == [id |-> NoId, links |-> NoId, created |-> 0]

There(n) == \E name \in Names : entry[name] = n

\* The relations of the file were stored under the id that it has.
Own(file) == file.links \in {NoId, file.id}

-----------------------------------------------------------------------------
(* The users of the volume *)

\* A new file n gets the name, and the server is told.
NewEntry(name, n) ==
  /\ entry[name] = NoNode /\ ~There(n)
  /\ created < MaxCreated
  /\ created' = created + 1
  /\ entry' = [entry EXCEPT ![name] = n]
  /\ node' = [node EXCEPT ![n] = [NoAttributes EXCEPT !.created = created + 1]]
  /\ events' = IF running THEN Append(events, name) ELSE events
  /\ UNCHANGED <<running, victims, oldest, restarts, origin, moved>>

CreateFile(name, n) ==
  /\ NewEntry(name, n)
  /\ UNCHANGED <<source, left, copies, missed>>

BeginCopy(m, name, n) ==
  /\ There(m) /\ left[m] = {}
  /\ NewEntry(name, n)
  /\ source' = [source EXCEPT ![n] = m]
  /\ left' = [left EXCEPT ![n] = Attributes]
  /\ copies' = copies \cup {n}
  /\ missed' = IF running THEN missed ELSE missed \cup {n}

\* An attribute that the source has; with the last one the copy is complete, and
\* may take over the creation time of its source.
CopyAttr(n, a) ==
  LET from == node[source[n]]
      got  == [node[n] EXCEPT ![a] = IF from[a] = NoId THEN @ ELSE from[a]]
      last == left[n] = {a}
  IN /\ a \in left[n]
     /\ left' = [left EXCEPT ![n] = @ \ {a}]
     /\ \E time \in {got.created} \cup (IF last THEN {from.created} ELSE {}) :
          node' = [node EXCEPT ![n] = [got EXCEPT !.created = time]]
     /\ source' = IF last THEN [source EXCEPT ![n] = NoNode] ELSE source
     /\ missed' = missed \cup {k \in {n} : last /\ ~Own(got)}
     /\ UNCHANGED <<entry, created, server, origin, copies, moved>>

\* The files that the server will look at by this name, if they may have to change.
Awaited(name) ==
  {n \in {entry[name]} \ {NoNode} : name \in victims \/ (n \in copies /\ name \in ToSet(events))}

Rename(name, to) ==
  /\ entry[name] # NoNode /\ entry[to] = NoNode
  /\ entry' = [entry EXCEPT ![name] = NoNode, ![to] = entry[name]]
  /\ missed' = missed \cup Awaited(name)
  /\ moved' = IF victims # {} THEN moved \cup {entry[name]} ELSE moved
  /\ UNCHANGED <<node, source, left, created, server, origin, copies>>

\* (Not a file that is being copied.)
Delete(name) ==
  LET n == entry[name] IN
  /\ n # NoNode
  /\ left[n] = {} /\ \A k \in Nodes : source[k] # n
  /\ entry' = [entry EXCEPT ![name] = NoNode]
  /\ node' = [node EXCEPT ![n] = NoAttributes]
  /\ origin' = [x \in Ids |-> IF origin[x] = n THEN NoNode ELSE origin[x]]
  /\ copies' = copies \ {n}
  /\ missed' = missed \ {n}
  /\ moved' = moved \ {n}
  /\ UNCHANGED <<source, left, created, server>>

-----------------------------------------------------------------------------
(* The server *)

\* A relation of the file is made: it gets an id, if it has none.
AddRelation(n) ==
  /\ running /\ victims = {}
  /\ There(n)
  /\ \/ /\ node[n].id # NoId
        /\ node' = [node EXCEPT ![n].links = IF @ = NoId THEN node[n].id ELSE @]
        /\ UNCHANGED origin
     \/ \E x \in Ids :
          /\ node[n].id = NoId
          /\ origin[x] = NoNode /\ \A k \in Nodes : node[k].id # x /\ node[k].links # x
          /\ node' = [node EXCEPT ![n].id = x, ![n].links = IF @ = NoId THEN x ELSE @]
          /\ origin' = [origin EXCEPT ![x] = n]
  /\ UNCHANGED <<entry, source, left, created, server, copies, missed, moved>>

\* QueryAllForSenId: the names of the files with the id.
Holders(x) == {name \in Names : entry[name] # NoNode /\ node[entry[name]].id = x}

Created(name) == node[entry[name]].created

\* Fault: the newest one keeps the id.
Newer(a, b) == Created(a) > Created(b) \/ (Created(a) = Created(b) /\ entry[a] < entry[b])

\* By creation time, then by inode.
Older(a, b) == Created(a) < Created(b) \/ (Created(a) = Created(b) /\ entry[a] < entry[b])

\* Fault: a single copy is not enough.
SharedByMore(n) ==
  {name \in Names : n # NoNode /\ node[n].id # NoId /\ Cardinality(Holders(node[n].id)) > 2 /\ name \in Holders(node[n].id)}

\* Only a file that has an id can be a copy: the names of all that have it, if there are more.
SharedWith(n) ==
  {name \in Names : n # NoNode /\ node[n].id # NoId /\ Cardinality(Holders(node[n].id)) > 1 /\ name \in Holders(node[n].id)}

\* All but the oldest are copies.
HandleCreated ==
  /\ running /\ victims = {} /\ events # <<>>
  /\ LET n == entry[Head(events)] IN
       /\ \/ SharedWith(n) = {} /\ UNCHANGED <<victims, oldest>>
          \/ \E keeper \in SharedWith(n) :
               /\ \A name \in SharedWith(n) \ {keeper} : Older(keeper, name)
               /\ victims' = SharedWith(n) \ {keeper}
               /\ oldest' = Created(keeper)
       /\ missed' = missed \cup {k \in {n} \ {NoNode} : left[k] # {} /\ Head(events) \notin ToSet(Tail(events))}
  /\ events' = Tail(events)
  /\ UNCHANGED <<volume, running, restarts, origin, copies, moved>>

\* Fault: the relations stay.
RemoveIdOnly(n, removed) == [node EXCEPT ![n].id = IF "id" \in removed THEN NoId ELSE @]

RemoveIdentityAttrs(n, removed) ==
  [node EXCEPT ![n].id = IF "id" \in removed THEN NoId ELSE @,
               ![n].links = IF "links" \in removed THEN NoId ELSE @]

\* The file that now has the name of the copy loses its identity (in the code they
\* follow by age; no order is needed here).
Strip(name) ==
  /\ running /\ name \in victims
  /\ LET n == entry[name] IN
       \/ n = NoNode /\ UNCHANGED <<node, missed>>
       \/ /\ n # NoNode
          /\ node' = RemoveIdentityAttrs(n, Attributes)
          /\ missed' = IF left[n] # {} THEN missed \cup {n} ELSE missed \ {n}
       \/ \E removed \in SUBSET Attributes \ {Attributes} :
            /\ n \in Refusing
            /\ node' = RemoveIdentityAttrs(n, removed)
            /\ missed' = missed \cup {n}
  /\ victims' = victims \ {name}
  /\ oldest' = IF victims' = {} THEN 0 ELSE oldest
  /\ moved' = IF victims' = {} THEN {} ELSE moved
  /\ UNCHANGED <<entry, source, left, created, running, events, restarts, origin, copies>>

Stop ==
  /\ running /\ restarts < MaxRestarts
  /\ running' = FALSE
  /\ restarts' = restarts + 1
  /\ events' = <<>> /\ victims' = {} /\ oldest' = 0
  /\ missed' = missed \cup UNION {Awaited(name) : name \in Names}
  /\ moved' = {}
  /\ UNCHANGED <<volume, origin, copies>>

\* It does not look for copies that were made meanwhile.
Start ==
  /\ ~running
  /\ running' = TRUE
  /\ UNCHANGED <<volume, events, victims, oldest, restarts, history>>

-----------------------------------------------------------------------------

Init ==
  /\ entry = [name \in Names |-> NoNode]
  /\ node = [n \in Nodes |-> NoAttributes]
  /\ source = [n \in Nodes |-> NoNode]
  /\ left = [n \in Nodes |-> {}]
  /\ created = 0
  /\ running = TRUE
  /\ events = <<>> /\ victims = {} /\ oldest = 0 /\ restarts = 0
  /\ origin = [x \in Ids |-> NoNode]
  /\ copies = {} /\ missed = {} /\ moved = {}

Users ==
  \/ \E name \in Names, n \in Nodes : CreateFile(name, n)
  \/ \E name \in Names, m, n \in Nodes : BeginCopy(m, name, n)
  \/ \E n \in Nodes, a \in Attributes : CopyAttr(n, a)
  \/ \E name, to \in Names : Rename(name, to)
  \/ \E name \in Names : Delete(name)

Server == (\E n \in Nodes : AddRelation(n)) \/ HandleCreated \/ (\E name \in Names : Strip(name)) \/ Stop \/ Start

Next == Users \/ Server

Spec == Init /\ [][Next]_vars

-----------------------------------------------------------------------------
(* Properties *)

\* SenServer.cpp 209: when no event waits, no two complete files have the same id,
\* except copies that the server missed: because their event came before their
\* attributes, or was about a name that they do not have any more, or they were
\* made while it was not running, or could not be changed.
SharingWasMissed ==
  events = <<>> /\ victims = {} =>
    \A m, n \in Nodes : m # n /\ node[m].id = node[n].id /\ node[n].id # NoId =>
      \E k \in {m, n} : left[k] # {} \/ k \in missed

\* SenServer.h 29-31: a copy loses the relations with the id.  Whatever is asked
\* of a file later, its relations were stored under its own id.
RelationsAreOwn == \A n \in Nodes \ missed : left[n] = {} => Own(node[n])

\* SenServer.cpp 643-646: the server never takes an id from the file that it was
\* made for, except for a copy that took over its creation time and has a lower
\* inode, or if files got other names while it handled the event.
OriginalKeepsId ==
  [][\A n \in Nodes, x \in Ids :
       origin[x] = n /\ node[n].id = x /\ origin'[x] = n /\ node'[n].id # x
         => left[n] # {} \/ oldest = node[n].created \/ n \in moved]_vars
=============================================================================
