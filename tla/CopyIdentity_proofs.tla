------------------------ MODULE CopyIdentity_proofs ------------------------
(***************************************************************************)
(* Proofs about CopyIdentity: for any number of files, names and ids, and  *)
(* whatever the users of the volume do between two steps of the server, a  *)
(* file that shares its id is one that the server missed, relations are    *)
(* stored under the id of their file, and the file that an id was made for *)
(* keeps it.                                                               *)
(***************************************************************************)
EXTENDS CopyIdentity, FiniteSetTheorems, TLAPS

-----------------------------------------------------------------------------
(* The inductive invariant *)

File == [id : Ids \cup {NoId}, links : Ids \cup {NoId}, created : Nat]

VolumeTyped ==
  /\ entry \in [Names -> Nodes \cup {NoNode}]
  /\ node \in [Nodes -> File]
  /\ source \in [Nodes -> Nodes \cup {NoNode}]
  /\ left \in [Nodes -> SUBSET Attributes]
  /\ created \in Nat

ServerTyped ==
  /\ running \in BOOLEAN
  /\ events \in Seq(Names)
  /\ victims \in SUBSET Names /\ oldest \in Nat
  /\ origin \in [Ids -> Nodes \cup {NoNode}]

\* A file has one name; without one nothing is left of it.
NamesOK ==
  /\ \A a, b \in Names : entry[a] = entry[b] /\ entry[a] # NoNode => a = b
  /\ \A n \in Nodes : There(n) \/ (node[n].id = NoId /\ left[n] = {})
  /\ \A x \in Ids : origin[x] # NoNode => There(origin[x])

\* The source of a copy is complete, stays, and was there before.
SourcesOK ==
  /\ \A n \in Nodes : node[n].created <= created
  /\ \A n \in Nodes : left[n] # {} =>
       /\ source[n] \in Nodes /\ There(source[n]) /\ left[source[n]] = {}
       /\ node[source[n]].created <= node[n].created

\* Whoever has an id that was made for another file: that one is complete, and not newer; nor is
\* it newer than what is being copied, whose age a copy may get.
AfterOrigin(n, m) ==
  /\ left[n] = {}
  /\ node[n].created <= node[m].created
  /\ left[m] # {} => node[n].created <= node[source[m]].created

OriginsOK ==
  \A x \in Ids, m \in Nodes :
    origin[x] # NoNode /\ m # origin[x] /\ node[m].id = x => AfterOrigin(origin[x], m)

\* If a file with the id that was made for it is to lose it, the keeper is as old.
VictimOK(name) ==
  \A x \in Ids :
    LET n == entry[name] IN
    n # NoNode /\ n \notin moved /\ origin[x] = n /\ node[n].id = x =>
      left[n] = {} /\ oldest = node[n].created

VictimsOK == \A name \in victims : VictimOK(name)

\* The server has missed the file, or will look at it.
Pending(n) == n \in missed \/ \E name \in Names : n \in Awaited(name)

\* What is being copied is pending, and of two files with an id at least one is.
Sharing(m, n) == m # n /\ node[m].id = node[n].id /\ node[n].id # NoId

PendingOK ==
  /\ \A n \in Nodes : left[n] # {} => Pending(n)
  /\ \A m, n \in Nodes : Sharing(m, n) => Pending(m) \/ Pending(n)

CopyInv ==
  /\ VolumeTyped /\ ServerTyped
  /\ NamesOK /\ SourcesOK /\ OriginsOK /\ VictimsOK /\ PendingOK

-----------------------------------------------------------------------------
(* The queue of events *)

LEMMA NoEvents == ToSet(<<>>) = {}
  BY DEF ToSet

LEMMA EventAdded ==
  ASSUME NEW s \in Seq(Names), NEW name \in Names
  PROVE  Append(s, name) \in Seq(Names) /\ ToSet(Append(s, name)) = ToSet(s) \cup {name}
<1>1. DOMAIN Append(s, name) = 1 .. Len(s) + 1 /\ DOMAIN s = 1 .. Len(s)
  OBVIOUS
<1>2. \A i \in 1 .. Len(s) + 1 : Append(s, name)[i] = IF i <= Len(s) THEN s[i] ELSE name
  OBVIOUS
<1>3. ASSUME NEW e PROVE e \in ToSet(Append(s, name)) <=> e \in ToSet(s) \cup {name}
  <2>1. e \in ToSet(Append(s, name)) <=> \E i \in 1 .. Len(s) + 1 : e = Append(s, name)[i]
    BY <1>1 DEF ToSet
  <2>2. e \in ToSet(s) <=> \E i \in 1 .. Len(s) : e = s[i]
    BY <1>1 DEF ToSet
  <2>3. Len(s) + 1 \in 1 .. Len(s) + 1 /\ \A i \in 1 .. Len(s) : i \in 1 .. Len(s) + 1
    OBVIOUS
  <2> QED
    BY <1>2, <2>1, <2>2, <2>3
<1> QED
  BY <1>3

LEMMA EventTaken ==
  ASSUME NEW s \in Seq(Names), s # <<>>
  PROVE  Head(s) \in Names /\ Tail(s) \in Seq(Names) /\ ToSet(s) \subseteq ToSet(Tail(s)) \cup {Head(s)}
<1>1. Head(s) = s[1] /\ 1 \in 1 .. Len(s) /\ Tail(s) \in Seq(Names) /\ Len(Tail(s)) = Len(s) - 1
      /\ \A i \in 1 .. Len(s) - 1 : Tail(s)[i] = s[i + 1]
  OBVIOUS
<1>2. ASSUME NEW e \in ToSet(s), e # Head(s) PROVE e \in ToSet(Tail(s))
  <2>1. PICK i \in 1 .. Len(s) : e = s[i]
    BY <1>2 DEF ToSet
  <2>2. i # 1 /\ i - 1 \in 1 .. Len(s) - 1 /\ Tail(s)[i - 1] = e
    BY <1>1, <1>2, <2>1
  <2>3. i - 1 \in DOMAIN Tail(s)
    BY <1>1, <2>2
  <2> QED
    BY <2>2, <2>3 DEF ToSet
<1> QED
  BY <1>1, <1>2

-----------------------------------------------------------------------------
(* The users of the volume *)

\* A file stays pending that has its name still, and while nothing is taken from what waits.
LEMMA StaysPending ==
  ASSUME NEW n, Pending(n), n \in missed => n \in missed',
         \A name \in Names : n \in Awaited(name) => entry'[name] = n \/ n \in missed',
         n \in copies => n \in copies',
         victims \subseteq victims', ToSet(events) \subseteq ToSet(events)'
  PROVE  Pending(n)'
<1>1. CASE n \in missed
  BY <1>1 DEF Pending
<1>2. ASSUME NEW name \in Names, n \in Awaited(name) PROVE Pending(n)'
  <2>1. /\ entry[name] = n /\ n # NoNode
        /\ name \in victims \/ (n \in copies /\ name \in ToSet(events))
    BY <1>2 DEF Awaited
  <2>2. CASE entry'[name] = n
    <3>1. n \in Awaited(name)'
      BY <2>1, <2>2 DEF Awaited
    <3> QED
      BY <3>1 DEF Pending
  <2> QED
    BY <1>2, <2>2 DEF Pending
<1> QED
  BY <1>1, <1>2 DEF Pending

\* A file n is made: it has no id; if it is a copy its source is complete, and it is pending.
LEMMA NewFile ==
  ASSUME CopyInv, NEW name \in Names, NEW n \in Nodes, NewEntry(name, n),
         source' \in [Nodes -> Nodes \cup {NoNode}], left' \in [Nodes -> SUBSET Attributes],
         \A k \in Nodes : k # n => left'[k] = left[k] /\ source'[k] = source[k],
         left'[n] # {} => /\ source'[n] \in Nodes /\ There(source'[n]) /\ left[source'[n]] = {}
                          /\ Pending(n)',
         missed \subseteq missed', copies \subseteq copies'
  PROVE  CopyInv'
<1>1. /\ entry[name] = NoNode /\ ~There(n) /\ created' = created + 1
      /\ entry' = [entry EXCEPT ![name] = n]
      /\ node' = [node EXCEPT ![n] = [NoAttributes EXCEPT !.created = created + 1]]
      /\ events' = IF running THEN Append(events, name) ELSE events
      /\ UNCHANGED <<running, victims, oldest, origin, moved>>
  BY DEF NewEntry
<1>2. VolumeTyped /\ ServerTyped /\ n # NoNode
  BY CopyAssumption DEF CopyInv
<1>3. node'[n] = [id |-> NoId, links |-> NoId, created |-> created + 1]
  BY <1>1, <1>2 DEF VolumeTyped, NoAttributes
<1>4. \A k \in Nodes : k # n => node'[k] = node[k]
  BY <1>1, <1>2 DEF VolumeTyped
<1>5. /\ entry'[name] = n
      /\ \A other \in Names : other # name => entry'[other] = entry[other]
  BY <1>1, <1>2 DEF VolumeTyped
<1>6. There(n)' /\ \A k \in Nodes : k # n => (There(k) <=> There(k)')
  BY <1>1, <1>2, <1>5, CopyAssumption DEF There
<1>7. events' \in Seq(Names) /\ ToSet(events) \subseteq ToSet(events)'
  <2>1. ToSet(events)' = ToSet(events')
    OBVIOUS
  <2> QED
    BY <1>1, <1>2, <2>1, EventAdded DEF ServerTyped
<1>8. VolumeTyped'
  <2>1. node'[n] \in File
    BY <1>2, <1>3 DEF File, VolumeTyped
  <2>2. node' \in [Nodes -> File]
    BY <1>1, <1>2, <1>4, <2>1 DEF VolumeTyped
  <2> QED
    BY <1>1, <1>2, <2>2 DEF VolumeTyped
<1>9. ServerTyped'
  BY <1>1, <1>2, <1>7 DEF ServerTyped
<1>10. NamesOK'
  <2>1. \A a, b \in Names : entry'[a] = entry'[b] /\ entry'[a] # NoNode => a = b
    BY <1>1, <1>5 DEF There, CopyInv, NamesOK
  <2>2. \A k \in Nodes : There(k)' \/ (node'[k].id = NoId /\ left'[k] = {})
    BY <1>4, <1>6 DEF CopyInv, NamesOK
  <2>3. \A x \in Ids : origin'[x] # NoNode => There(origin[x])'
    BY <1>1, <1>2, <1>6 DEF CopyInv, NamesOK, ServerTyped, There
  <2> QED
    BY <2>1, <2>2, <2>3 DEF NamesOK
<1>11. SourcesOK'
  <2>1. \A k \in Nodes : node'[k].created <= created'
    BY <1>1, <1>2, <1>3, <1>4 DEF CopyInv, SourcesOK, VolumeTyped, File
  <2>2. ASSUME NEW k \in Nodes, left'[k] # {}
        PROVE  /\ source'[k] \in Nodes /\ There(source[k])' /\ left'[source'[k]] = {}
               /\ node'[source'[k]].created <= node'[k].created
    <3>1. source'[k] \in Nodes /\ There(source'[k]) /\ left[source'[k]] = {}
      BY <2>2 DEF CopyInv, SourcesOK
    <3>2. source'[k] # n
      BY <1>1, <3>1
    <3>3. node'[source'[k]] = node[source'[k]]
      BY <1>4, <3>1, <3>2
    <3>4. There(source[k])'
      BY <1>6, <3>1, <3>2 DEF There
    <3>5. node[source'[k]].created <= node'[k].created
      <4>1. CASE k = n
        <5>1. node[source'[k]].created \in Nat /\ node[source'[k]].created <= created
          BY <1>2, <3>1 DEF CopyInv, SourcesOK, VolumeTyped, File
        <5> QED
          BY <1>2, <1>3, <4>1, <5>1 DEF VolumeTyped
      <4>2. CASE k # n
        BY <1>4, <2>2, <4>2 DEF CopyInv, SourcesOK
      <4> QED
        BY <4>1, <4>2
    <3> QED
      BY <3>1, <3>2, <3>3, <3>4, <3>5
  <2> QED
    BY <2>1, <2>2 DEF SourcesOK
<1>12. OriginsOK'
  <2> SUFFICES ASSUME NEW x \in Ids, NEW m \in Nodes,
                      origin'[x] # NoNode, m # origin'[x], node'[m].id = x
               PROVE  AfterOrigin(origin[x], m)'
    BY DEF OriginsOK
  <2>1. m # n /\ node[m].id = x
    BY <1>3, <1>4, CopyAssumption
  <2>2. AfterOrigin(origin[x], m) /\ origin'[x] = origin[x] /\ origin[x] \in Nodes /\ origin[x] # n
    BY <1>1, <1>2, <2>1 DEF CopyInv, OriginsOK, NamesOK, ServerTyped
  <2>3. left[m] # {} => source[m] \in Nodes /\ source[m] # n
    BY <1>1 DEF CopyInv, SourcesOK
  <2>4. node'[origin[x]] = node[origin[x]] /\ left'[origin[x]] = left[origin[x]] /\ node'[m] = node[m]
        /\ left'[m] = left[m] /\ source'[m] = source[m]
    BY <1>4, <2>1, <2>2
  <2>5. left[m] # {} => node'[source[m]] = node[source[m]]
    BY <1>4, <2>3
  <2> QED
    BY <2>2, <2>4, <2>5 DEF AfterOrigin
<1>13. VictimsOK'
  <2> SUFFICES ASSUME NEW v \in victims PROVE VictimOK(v)'
    BY <1>1 DEF VictimsOK
  <2>1. v \in Names /\ VictimOK(v)
    BY <1>2 DEF CopyInv, VictimsOK, ServerTyped
  <2>2. CASE v = name
    BY <1>1, <1>2, <1>5, <2>2 DEF VictimOK, CopyInv, NamesOK
  <2>3. CASE v # name
    <3>1. entry'[v] = entry[v] /\ entry[v] # n
      BY <1>1, <1>5, <2>1, <2>3 DEF There
    <3>2. entry[v] # NoNode => node'[entry[v]] = node[entry[v]] /\ left'[entry[v]] = left[entry[v]]
      BY <1>2, <1>4, <2>1, <3>1 DEF VolumeTyped
    <3> QED
      BY <1>1, <2>1, <3>1, <3>2 DEF VictimOK
  <2> QED
    BY <2>2, <2>3
<1>14. PendingOK'
  <2>1. ASSUME NEW k \in Nodes, k # n, Pending(k) PROVE Pending(k)'
    <3>1. \A nm \in Names : k \in Awaited(nm) => entry'[nm] = k
      BY <1>1, <1>5, <2>1, CopyAssumption DEF Awaited
    <3> QED
      BY <1>1, <1>7, <2>1, <3>1, StaysPending
  <2>2. \A k \in Nodes : left'[k] # {} => Pending(k)'
    BY <2>1 DEF CopyInv, PendingOK
  <2>3. ASSUME NEW k \in Nodes, NEW m \in Nodes, Sharing(k, m)' PROVE Pending(k)' \/ Pending(m)'
    <3>1. k # n /\ m # n /\ Sharing(k, m)
      BY <1>3, <1>4, <2>3 DEF Sharing
    <3> QED
      BY <2>1, <3>1 DEF CopyInv, PendingOK
  <2> QED
    BY <2>2, <2>3 DEF PendingOK
<1> QED
  BY <1>8, <1>9, <1>10, <1>11, <1>12, <1>13, <1>14 DEF CopyInv

LEMMA CreateFileKeeps ==
  ASSUME CopyInv, NEW name \in Names, NEW n \in Nodes, CreateFile(name, n) PROVE CopyInv'
<1>1. NewEntry(name, n) /\ UNCHANGED <<source, left, copies, missed>>
  BY DEF CreateFile
<1>2. left[n] = {} /\ source \in [Nodes -> Nodes \cup {NoNode}] /\ left \in [Nodes -> SUBSET Attributes]
  BY <1>1 DEF NewEntry, CopyInv, NamesOK, VolumeTyped
<1> QED
  BY <1>1, <1>2, NewFile

LEMMA BeginCopyKeeps ==
  ASSUME CopyInv, NEW m \in Nodes, NEW name \in Names, NEW n \in Nodes, BeginCopy(m, name, n)
  PROVE  CopyInv'
<1>1. /\ There(m) /\ left[m] = {} /\ NewEntry(name, n)
      /\ source' = [source EXCEPT ![n] = m] /\ left' = [left EXCEPT ![n] = Attributes]
      /\ copies' = copies \cup {n}
      /\ missed' = IF running THEN missed ELSE missed \cup {n}
  BY DEF BeginCopy
<1>2. /\ source \in [Nodes -> Nodes \cup {NoNode}] /\ left \in [Nodes -> SUBSET Attributes]
      /\ events \in Seq(Names) /\ entry \in [Names -> Nodes \cup {NoNode}] /\ n # NoNode
  BY CopyAssumption DEF CopyInv, VolumeTyped, ServerTyped
<1>3. Pending(n)'
  <2>1. CASE running
    <3>1. entry'[name] = n /\ events' = Append(events, name)
      BY <1>1, <1>2, <2>1 DEF NewEntry
    <3>2. name \in ToSet(events')
      BY <1>2, <3>1, EventAdded
    <3>3. n \in Awaited(name)'
      BY <1>1, <1>2, <3>1, <3>2 DEF Awaited
    <3> QED
      BY <3>3 DEF Pending
  <2>2. CASE ~running
    BY <1>1, <2>2 DEF Pending
  <2> QED
    BY <2>1, <2>2
<1>4. /\ source' \in [Nodes -> Nodes \cup {NoNode}] /\ left' \in [Nodes -> SUBSET Attributes]
      /\ source'[n] = m /\ \A k \in Nodes : k # n => left'[k] = left[k] /\ source'[k] = source[k]
  BY <1>1, <1>2
<1>5. missed \subseteq missed' /\ copies \subseteq copies'
  BY <1>1
<1> QED
  BY <1>1, <1>3, <1>4, <1>5, NewFile

\* Attribute by attribute, and maybe the time: the id is its own or that of the source.
LEMMA CopiedAttr ==
  ASSUME CopyInv, NEW n \in Nodes, NEW a \in Attributes, CopyAttr(n, a)
  PROVE  /\ left[n] # {} /\ source[n] \in Nodes /\ left[source[n]] = {} /\ source[n] # n
         /\ node[source[n]].created <= node[n].created
         /\ node'[n] \in File
         /\ node'[n].id = node[n].id \/ node'[n].id = node[source[n]].id
         /\ node'[n].created \in {node[n].created, node[source[n]].created}
         /\ left'[n] # {} => node'[n].created = node[n].created /\ source'[n] = source[n]
         /\ \A k \in Nodes : k # n => node'[k] = node[k] /\ left'[k] = left[k] /\ source'[k] = source[k]
         /\ node' \in [Nodes -> File] /\ left' \in [Nodes -> SUBSET Attributes]
         /\ source' \in [Nodes -> Nodes \cup {NoNode}]
         /\ missed \subseteq missed'
         /\ left'[n] = {} /\ n \notin missed' => Own(node'[n])
         /\ UNCHANGED <<entry, created, running, events, victims, oldest, origin, copies, moved>>
<1> DEFINE s == source[n]
           from == node[s]
           got  == [node[n] EXCEPT ![a] = IF from[a] = NoId THEN node[n][a] ELSE from[a]]
           last == left[n] = {a}
<1>1. /\ a \in left[n]
      /\ left' = [left EXCEPT ![n] = left[n] \ {a}]
      /\ \E time \in {got.created} \cup (IF last THEN {from.created} ELSE {}) :
           node' = [node EXCEPT ![n] = [got EXCEPT !.created = time]]
      /\ source' = IF last THEN [source EXCEPT ![n] = NoNode] ELSE source
      /\ missed' = missed \cup {k \in {n} : last /\ ~Own(got)}
      /\ UNCHANGED <<entry, created, running, events, victims, oldest, origin, copies, moved>>
  BY DEF CopyAttr, server
<1>2. VolumeTyped
  BY DEF CopyInv
<1>3. s \in Nodes /\ left[s] = {} /\ s # n /\ left[n] # {} /\ node[s].created <= node[n].created
  BY <1>1 DEF CopyInv, SourcesOK
<1>4. node[n] \in File /\ from \in File
  BY <1>2, <1>3 DEF VolumeTyped
<1>5. /\ got \in File /\ got.created = node[n].created
      /\ got.id = node[n].id \/ got.id = from.id
  BY <1>4 DEF File, Attributes
<1> HIDE DEF got
<1>6. PICK time \in {got.created} \cup (IF last THEN {from.created} ELSE {}) :
         node' = [node EXCEPT ![n] = [got EXCEPT !.created = time]]
  BY <1>1
<1>7. node'[n] = [got EXCEPT !.created = time]
  BY <1>2, <1>6 DEF VolumeTyped
<1>8. time \in {node[n].created, from.created} /\ time \in Nat
  BY <1>4, <1>5, <1>6 DEF File
<1>9. node'[n] \in File /\ node'[n].created = time /\ node'[n].id = got.id
  BY <1>5, <1>7, <1>8 DEF File
<1>10. left'[n] # {} => ~last
  BY <1>1, <1>2 DEF VolumeTyped
<1>11. left'[n] # {} => time = node[n].created /\ source'[n] = s
  BY <1>1, <1>5, <1>6, <1>10
<1>12. \A k \in Nodes : k # n => node'[k] = node[k] /\ left'[k] = left[k] /\ source'[k] = source[k]
  BY <1>1, <1>2, <1>6 DEF VolumeTyped
<1>13. node' \in [Nodes -> File]
  BY <1>2, <1>6, <1>9, <1>12 DEF VolumeTyped
<1>14. left' \in [Nodes -> SUBSET Attributes] /\ source' \in [Nodes -> Nodes \cup {NoNode}]
  BY <1>1, <1>2 DEF VolumeTyped
<1>15. left'[n] = {} /\ n \notin missed' => Own(node'[n])
  <2>1. left'[n] = {} => last
    BY <1>1, <1>2 DEF VolumeTyped
  <2>2. node'[n].id = got.id /\ node'[n].links = got.links
    BY <1>5, <1>7 DEF File
  <2> QED
    BY <1>1, <2>1, <2>2 DEF Own
<1> QED
  BY <1>1, <1>3, <1>5, <1>8, <1>9, <1>11, <1>12, <1>13, <1>14, <1>15

LEMMA CopyAttrKeeps ==
  ASSUME CopyInv, NEW n \in Nodes, NEW a \in Attributes, CopyAttr(n, a) PROVE CopyInv'
<1> DEFINE s == source[n]
<1>1. /\ left[n] # {} /\ s \in Nodes /\ left[s] = {} /\ s # n
      /\ node[s].created <= node[n].created
      /\ node'[n].id = node[n].id \/ node'[n].id = node[s].id
      /\ node'[n].created \in {node[n].created, node[s].created}
      /\ left'[n] # {} => node'[n].created = node[n].created /\ source'[n] = s
      /\ \A k \in Nodes : k # n => node'[k] = node[k] /\ left'[k] = left[k] /\ source'[k] = source[k]
      /\ missed \subseteq missed'
      /\ UNCHANGED <<entry, created, running, events, victims, oldest, origin, copies, moved>>
  BY CopiedAttr
<1>2. VolumeTyped' /\ ServerTyped'
  BY <1>1, CopiedAttr DEF CopyInv, VolumeTyped, ServerTyped
<1>3. VolumeTyped /\ ServerTyped /\ \A k \in Nodes : node[k].created \in Nat
  BY DEF CopyInv, VolumeTyped, File
<1>4. \A k : There(k) <=> There(k)'
  BY <1>1 DEF There
<1>5. NamesOK'
  <2>1. There(n)
    BY <1>1 DEF CopyInv, NamesOK
  <2>2. \A k \in Nodes : There(k)' \/ (node'[k].id = NoId /\ left'[k] = {})
    BY <1>1, <1>4, <2>1 DEF CopyInv, NamesOK
  <2>3. \A x \in Ids : origin'[x] # NoNode => There(origin[x])'
    BY <1>1 DEF CopyInv, NamesOK, There
  <2> QED
    BY <1>1, <2>2, <2>3 DEF CopyInv, NamesOK
<1>6. SourcesOK'
  <2>1. \A k \in Nodes : node'[k].created <= created'
    BY <1>1 DEF CopyInv, SourcesOK
  <2>2. ASSUME NEW k \in Nodes, left'[k] # {}
        PROVE  /\ source'[k] \in Nodes /\ There(source[k])' /\ left'[source'[k]] = {}
               /\ node'[source'[k]].created <= node'[k].created
    <3>1. left[k] # {} /\ source'[k] = source[k] /\ node'[k].created = node[k].created
      BY <1>1, <2>2
    <3>2. /\ source[k] \in Nodes /\ There(source[k]) /\ left[source[k]] = {}
          /\ node[source[k]].created <= node[k].created
      BY <3>1 DEF CopyInv, SourcesOK
    <3>3. There(source[k])'
      BY <1>1, <3>1, <3>2 DEF There
    <3> QED
      BY <1>1, <3>1, <3>2, <3>3
  <2> QED
    BY <2>1, <2>2 DEF SourcesOK
<1>7. \A x \in Ids, m \in Nodes : node[m].id = x /\ m # n => origin[x] # n
  BY <1>1, CopyAssumption DEF CopyInv, OriginsOK, AfterOrigin
<1>8. OriginsOK'
  <2> SUFFICES ASSUME NEW x \in Ids, NEW m \in Nodes,
                      origin'[x] # NoNode, m # origin'[x], node'[m].id = x
               PROVE  AfterOrigin(origin[x], m)'
    BY DEF OriginsOK
  <2>1. PICK o \in Nodes : o = origin[x] /\ o # NoNode
    BY <1>1, <1>3 DEF ServerTyped
  <2>2. o # m /\ o = origin'[x]
    BY <1>1, <2>1
  <2>3. \A k \in Nodes : node[k].id = x /\ k # o => AfterOrigin(o, k)
    BY <2>1 DEF CopyInv, OriginsOK
  <2>4. o # n
    <3>1. CASE m = n
      BY <2>2, <3>1
    <3>2. CASE m # n
      BY <1>1, <1>7, <2>1, <3>2
    <3> QED
      BY <3>1, <3>2
  <2>5. node'[o] = node[o] /\ left'[o] = left[o]
    BY <1>1, <2>4
  <2>6. CASE m # n
    <3>1. AfterOrigin(o, m) /\ node'[m] = node[m] /\ left'[m] = left[m] /\ source'[m] = source[m]
      BY <1>1, <2>2, <2>3, <2>6
    <3>2. left[m] # {} => source[m] \in Nodes /\ source[m] # n
      BY <1>1 DEF CopyInv, SourcesOK
    <3>3. left[m] # {} => node'[source[m]] = node[source[m]]
      BY <1>1, <3>2
    <3> QED
      BY <2>2, <2>5, <3>1, <3>3 DEF AfterOrigin
  <2>7. CASE m = n
    <3>1. left[o] = {} /\ node[o].created <= node[s].created /\ node[o].created <= node[n].created
      <4>1. CASE node[n].id = x
        BY <1>1, <2>2, <2>3, <2>7, <4>1 DEF AfterOrigin
      <4>2. CASE node[s].id = x
        <5>1. CASE s = o
          BY <1>1, <1>3, <5>1
        <5>2. CASE s # o
          <6>1. left[o] = {} /\ node[o].created <= node[s].created
            BY <1>1, <2>3, <4>2, <5>2 DEF AfterOrigin
          <6> QED
            BY <1>1, <1>3, <6>1
        <5> QED
          BY <5>1, <5>2
      <4> QED
        BY <1>1, <2>7, <4>1, <4>2
    <3>2. node'[s] = node[s]
      BY <1>1
    <3> QED
      BY <1>1, <2>2, <2>5, <2>7, <3>1, <3>2 DEF AfterOrigin
  <2> QED
    BY <2>6, <2>7
<1>9. VictimsOK'
  <2> SUFFICES ASSUME NEW v \in victims PROVE VictimOK(v)'
    BY <1>1 DEF VictimsOK
  <2>1. v \in Names /\ VictimOK(v)
    BY <1>3 DEF CopyInv, VictimsOK, ServerTyped
  <2>2. CASE entry[v] # n
    BY <1>1, <1>3, <2>1, <2>2 DEF VictimOK, VolumeTyped
  <2>3. CASE entry[v] = n
    <3>1. \A x \in Ids : origin[x] = n => node[n].id # x \/ n \in moved
      BY <1>1, <2>1, <2>3, CopyAssumption DEF VictimOK
    <3>2. \A x \in Ids : origin[x] = n => node[s].id # x
      BY <1>1, <1>7
    <3> QED
      BY <1>1, <2>3, <3>1, <3>2 DEF VictimOK
  <2> QED
    BY <2>2, <2>3
<1>10. PendingOK'
  <2>1. ASSUME NEW k \in Nodes, Pending(k) PROVE Pending(k)'
    BY <1>1, <2>1, StaysPending DEF Awaited
  <2>2. Pending(n)'
    BY <1>1, <2>1 DEF CopyInv, PendingOK
  <2>3. ASSUME NEW k \in Nodes, left'[k] # {} PROVE Pending(k)'
    BY <1>1, <2>1, <2>2, <2>3 DEF CopyInv, PendingOK
  <2>4. ASSUME NEW k \in Nodes, NEW m \in Nodes, Sharing(k, m)' PROVE Pending(k)' \/ Pending(m)'
    <3>1. CASE k = n \/ m = n
      BY <2>2, <3>1
    <3>2. CASE k # n /\ m # n
      <4>1. Sharing(k, m)
        BY <1>1, <2>4, <3>2 DEF Sharing
      <4> QED
        BY <2>1, <4>1 DEF CopyInv, PendingOK
    <3> QED
      BY <3>1, <3>2
  <2> QED
    BY <2>3, <2>4 DEF PendingOK
<1> QED
  BY <1>2, <1>5, <1>6, <1>8, <1>9, <1>10 DEF CopyInv

LEMMA RenameKeeps ==
  ASSUME CopyInv, NEW name \in Names, NEW to \in Names, Rename(name, to) PROVE CopyInv'
<1>1. /\ entry[name] # NoNode /\ entry[to] = NoNode /\ name # to
      /\ entry' = [entry EXCEPT ![name] = NoNode, ![to] = entry[name]]
      /\ missed' = missed \cup Awaited(name)
      /\ moved' = IF victims # {} THEN moved \cup {entry[name]} ELSE moved
      /\ UNCHANGED <<node, source, left, created, running, events, victims, oldest, origin, copies>>
  BY DEF Rename, server
<1>2. VolumeTyped /\ ServerTyped
  BY DEF CopyInv
<1>3. /\ entry'[name] = NoNode /\ entry'[to] = entry[name]
      /\ \A other \in Names : other # name /\ other # to => entry'[other] = entry[other]
  BY <1>1, <1>2 DEF VolumeTyped
<1>4. \A n : n # NoNode => (There(n) <=> There(n)')
  BY <1>1, <1>3 DEF There
<1>5. VolumeTyped' /\ ServerTyped'
  BY <1>1, <1>2 DEF VolumeTyped, ServerTyped
<1>6. NamesOK'
  <2>1. \A a, b \in Names : entry'[a] = entry'[b] /\ entry'[a] # NoNode => a = b
    BY <1>1, <1>3 DEF CopyInv, NamesOK
  <2>2. \A n \in Nodes : There(n)' \/ (node'[n].id = NoId /\ left'[n] = {})
    BY <1>1, <1>4, CopyAssumption DEF CopyInv, NamesOK
  <2>3. \A x \in Ids : origin'[x] # NoNode => There(origin[x])'
    BY <1>1, <1>4 DEF CopyInv, NamesOK, There
  <2> QED
    BY <2>1, <2>2, <2>3 DEF NamesOK
<1>7. SourcesOK'
  <2>1. ASSUME NEW n \in Nodes, left[n] # {}
        PROVE  /\ source[n] \in Nodes /\ There(source[n])' /\ left[source[n]] = {}
               /\ node[source[n]].created <= node[n].created
    <3>1. /\ source[n] \in Nodes /\ There(source[n]) /\ left[source[n]] = {}
          /\ node[source[n]].created <= node[n].created
      BY <2>1 DEF CopyInv, SourcesOK
    <3>2. There(source[n])'
      BY <1>1, <1>4, <3>1, CopyAssumption DEF There
    <3> QED
      BY <3>1, <3>2
  <2> QED
    BY <1>1, <2>1 DEF CopyInv, SourcesOK
<1>8. OriginsOK'
  BY <1>1 DEF CopyInv, OriginsOK, AfterOrigin
<1>9. VictimsOK'
  <2> SUFFICES ASSUME NEW v \in victims PROVE VictimOK(v)'
    BY <1>1 DEF VictimsOK
  <2>1. v \in Names /\ VictimOK(v)
    BY <1>2 DEF CopyInv, VictimsOK, ServerTyped
  <2>2. CASE v = name
    BY <1>3, <2>2 DEF VictimOK
  <2>3. CASE v = to
    BY <1>1, <1>3, <2>3 DEF VictimOK
  <2>4. CASE v # name /\ v # to
    <3>1. entry'[v] = entry[v] /\ moved \subseteq moved'
      BY <1>1, <1>3, <2>1, <2>4
    <3> QED
      BY <1>1, <2>1, <3>1 DEF VictimOK
  <2> QED
    BY <2>2, <2>3, <2>4
<1>10. PendingOK'
  <2>1. ASSUME NEW n \in Nodes, Pending(n) PROVE Pending(n)'
    <3>1. ASSUME NEW nm \in Names, n \in Awaited(nm) PROVE entry'[nm] = n \/ n \in missed'
      BY <1>1, <1>3, <3>1 DEF Awaited
    <3> QED
      BY <1>1, <2>1, <3>1, StaysPending
  <2> QED
    BY <1>1, <2>1 DEF CopyInv, PendingOK, Sharing
<1> QED
  BY <1>5, <1>6, <1>7, <1>8, <1>9, <1>10 DEF CopyInv

LEMMA DeleteKeeps ==
  ASSUME CopyInv, NEW name \in Names, Delete(name) PROVE CopyInv'
<1> DEFINE n == entry[name]
<1>1. /\ n # NoNode /\ left[n] = {} /\ \A k \in Nodes : source[k] # n
      /\ entry' = [entry EXCEPT ![name] = NoNode]
      /\ node' = [node EXCEPT ![n] = NoAttributes]
      /\ origin' = [x \in Ids |-> IF origin[x] = n THEN NoNode ELSE origin[x]]
      /\ copies' = copies \ {n} /\ missed' = missed \ {n} /\ moved' = moved \ {n}
      /\ UNCHANGED <<source, left, created, running, events, victims, oldest>>
  BY DEF Delete, server
<1>2. VolumeTyped /\ ServerTyped /\ n \in Nodes
  BY <1>1 DEF CopyInv, VolumeTyped
<1>3. /\ entry'[name] = NoNode
      /\ \A other \in Names : other # name => entry'[other] = entry[other] /\ entry[other] # n
  BY <1>1, <1>2 DEF CopyInv, NamesOK, VolumeTyped
<1>4. /\ node'[n].id = NoId /\ node'[n].created = 0 /\ node'[n] \in File
      /\ \A k \in Nodes : k # n => node'[k] = node[k]
  BY <1>1, <1>2 DEF VolumeTyped, NoAttributes, File
<1>5. \A k : k # n /\ k # NoNode => (There(k) <=> There(k)')
  BY <1>1, <1>3 DEF There
<1>6. VolumeTyped' /\ ServerTyped'
  BY <1>1, <1>2, <1>4 DEF VolumeTyped, ServerTyped
<1>7. NamesOK'
  <2>1. \A a, b \in Names : entry'[a] = entry'[b] /\ entry'[a] # NoNode => a = b
    BY <1>1, <1>3 DEF CopyInv, NamesOK
  <2>2. \A k \in Nodes : There(k)' \/ (node'[k].id = NoId /\ left'[k] = {})
    BY <1>1, <1>4, <1>5, CopyAssumption DEF CopyInv, NamesOK
  <2>3. \A x \in Ids : origin'[x] # NoNode => There(origin[x])'
    BY <1>1, <1>5 DEF CopyInv, NamesOK, There
  <2>4. \A x \in Ids : origin'[x] # NoNode => origin'[x] = origin[x]
    BY <1>1
  <2> QED
    BY <2>1, <2>2, <2>3, <2>4 DEF NamesOK, There
<1>8. SourcesOK'
  <2>1. \A k \in Nodes : node'[k].created <= created'
    BY <1>1, <1>2, <1>4 DEF CopyInv, SourcesOK, VolumeTyped
  <2>2. ASSUME NEW k \in Nodes, left[k] # {}
        PROVE  /\ source[k] \in Nodes /\ There(source[k])' /\ left[source[k]] = {}
               /\ node'[source[k]].created <= node'[k].created
    <3>1. /\ source[k] \in Nodes /\ There(source[k]) /\ left[source[k]] = {}
          /\ node[source[k]].created <= node[k].created /\ source[k] # n /\ k # n
      BY <1>1, <2>2 DEF CopyInv, SourcesOK
    <3>2. There(source[k])'
      BY <1>1, <1>5, <3>1, CopyAssumption DEF There
    <3> QED
      BY <1>4, <3>1, <3>2
  <2> QED
    BY <1>1, <2>1, <2>2 DEF SourcesOK
<1>9. OriginsOK'
  <2> SUFFICES ASSUME NEW x \in Ids, NEW m \in Nodes,
                      origin'[x] # NoNode, m # origin'[x], node'[m].id = x
               PROVE  AfterOrigin(origin[x], m)' /\ origin'[x] = origin[x]
    BY DEF OriginsOK, AfterOrigin
  <2>1. m # n /\ origin'[x] = origin[x] /\ origin[x] \in Nodes /\ origin[x] # n
    BY <1>1, <1>2, <1>4, CopyAssumption DEF ServerTyped
  <2>2. AfterOrigin(origin[x], m)
    BY <1>4, <2>1 DEF CopyInv, OriginsOK
  <2>3. left[m] # {} => source[m] \in Nodes /\ source[m] # n
    BY <1>1 DEF CopyInv, SourcesOK
  <2> QED
    BY <1>1, <1>4, <2>1, <2>2, <2>3 DEF AfterOrigin
<1>10. VictimsOK'
  <2> SUFFICES ASSUME NEW v \in victims PROVE VictimOK(v)'
    BY <1>1 DEF VictimsOK
  <2>1. v \in Names /\ VictimOK(v)
    BY <1>2 DEF CopyInv, VictimsOK, ServerTyped
  <2>2. CASE v = name
    BY <1>3, <2>2 DEF VictimOK
  <2>3. CASE v # name
    <3>1. entry'[v] = entry[v] /\ entry[v] # n /\ entry[v] \in Nodes \cup {NoNode}
      BY <1>2, <1>3, <2>1, <2>3 DEF VolumeTyped
    <3>2. entry[v] # NoNode => node'[entry[v]] = node[entry[v]]
      BY <1>4, <3>1
    <3>3. \A x \in Ids : origin'[x] = entry[v] /\ entry[v] # NoNode => origin[x] = entry[v]
      BY <1>1
    <3> QED
      BY <1>1, <2>1, <3>1, <3>2, <3>3 DEF VictimOK
  <2> QED
    BY <2>2, <2>3
<1>11. PendingOK'
  <2>1. ASSUME NEW k \in Nodes, k # n, Pending(k) PROVE Pending(k)'
    <3>1. ASSUME NEW nm \in Names, k \in Awaited(nm) PROVE entry'[nm] = k
      BY <1>3, <2>1, <3>1 DEF Awaited
    <3> QED
      BY <1>1, <2>1, <3>1, StaysPending
  <2>2. ASSUME NEW k \in Nodes, left'[k] # {} PROVE Pending(k)'
    BY <1>1, <2>1, <2>2 DEF CopyInv, PendingOK
  <2>3. ASSUME NEW k \in Nodes, NEW m \in Nodes, Sharing(k, m)' PROVE Pending(k)' \/ Pending(m)'
    <3>1. k # n /\ m # n /\ Sharing(k, m)
      BY <1>4, <2>3 DEF Sharing
    <3> QED
      BY <2>1, <3>1 DEF CopyInv, PendingOK
  <2> QED
    BY <2>2, <2>3 DEF PendingOK
<1> QED
  BY <1>6, <1>7, <1>8, <1>9, <1>10, <1>11 DEF CopyInv

-----------------------------------------------------------------------------
(* The server *)

\* The file has its id, or gets one that no file has.
LEMMA AddRelationKeeps ==
  ASSUME CopyInv, NEW n \in Nodes, AddRelation(n) PROVE CopyInv'
<1>1. /\ victims = {} /\ There(n)
      /\ UNCHANGED <<entry, source, left, created, running, events, victims, oldest, copies, missed,
                     moved>>
  BY DEF AddRelation, server
<1>2. VolumeTyped /\ ServerTyped /\ node[n] \in File
  BY DEF CopyInv, VolumeTyped
<1>3. PICK id \in Ids \cup {NoId}, links \in Ids \cup {NoId} :
        /\ node' = [node EXCEPT ![n].id = id, ![n].links = links]
        /\ \/ id = node[n].id /\ origin' = origin
           \/ /\ id \in Ids /\ origin' = [origin EXCEPT ![id] = n]
              /\ \A k \in Nodes : node[k].id # id
  <2>1. CASE /\ node[n].id # NoId
             /\ node' = [node EXCEPT ![n].links = IF node[n].links = NoId THEN node[n].id ELSE node[n].links]
             /\ UNCHANGED origin
    <3>1. node' = [node EXCEPT ![n].id = node[n].id,
                               ![n].links = IF node[n].links = NoId THEN node[n].id ELSE node[n].links]
      BY <1>2, <2>1 DEF VolumeTyped, File
    <3> QED
      BY <1>2, <2>1, <3>1 DEF File
  <2>2. ASSUME NEW x \in Ids,
               \A k \in Nodes : node[k].id # x /\ node[k].links # x,
               node' = [node EXCEPT ![n].id = x, ![n].links = IF node[n].links = NoId THEN x ELSE node[n].links],
               origin' = [origin EXCEPT ![x] = n]
        PROVE  \E id \in Ids \cup {NoId}, links \in Ids \cup {NoId} :
                 /\ node' = [node EXCEPT ![n].id = id, ![n].links = links]
                 /\ id \in Ids /\ origin' = [origin EXCEPT ![id] = n]
                 /\ \A k \in Nodes : node[k].id # id
    BY <1>2, <2>2 DEF File
  <2> QED
    BY <2>1, <2>2 DEF AddRelation
<1>4. /\ node'[n] \in File /\ node'[n].id = id /\ node'[n].created = node[n].created
      /\ \A k \in Nodes : k # n => node'[k] = node[k]
  BY <1>2, <1>3 DEF VolumeTyped, File
<1>5. \A k \in Nodes : node'[k].created = node[k].created
  BY <1>4
<1>6. \A k : There(k) <=> There(k)'
  BY <1>1 DEF There
<1>7. VolumeTyped' /\ ServerTyped'
  BY <1>1, <1>2, <1>3, <1>4 DEF VolumeTyped, ServerTyped
<1>8. NamesOK'
  <2>1. \A k \in Nodes : There(k)' \/ (node'[k].id = NoId /\ left'[k] = {})
    BY <1>1, <1>4, <1>6 DEF CopyInv, NamesOK
  <2>2. \A x \in Ids : origin'[x] # NoNode => There(origin[x])' \/ origin'[x] = n
    BY <1>1, <1>2, <1>3 DEF CopyInv, NamesOK, There, ServerTyped
  <2>3. \A x \in Ids : origin'[x] = origin[x] \/ origin'[x] = n
    BY <1>2, <1>3 DEF ServerTyped
  <2>4. There(n)'
    BY <1>1, <1>6
  <2> QED
    BY <1>1, <2>1, <2>2, <2>3, <2>4 DEF CopyInv, NamesOK, There
<1>9. SourcesOK'
  BY <1>1, <1>5 DEF CopyInv, SourcesOK, There
<1>10. OriginsOK'
  <2> SUFFICES ASSUME NEW x \in Ids, NEW m \in Nodes,
                      origin'[x] # NoNode, m # origin'[x], node'[m].id = x
               PROVE  AfterOrigin(origin[x], m)' /\ origin'[x] = origin[x]
    BY DEF OriginsOK, AfterOrigin
  <2>1. origin'[x] = origin[x] /\ node[m].id = x
    <3>1. CASE id = node[n].id /\ origin' = origin
      BY <1>4, <3>1
    <3>2. CASE /\ id \in Ids /\ origin' = [origin EXCEPT ![id] = n]
               /\ \A k \in Nodes : node[k].id # id
      <4>1. x # id
        BY <1>2, <1>4, <3>2 DEF ServerTyped
      <4> QED
        BY <1>2, <1>4, <3>2, <4>1 DEF ServerTyped
    <3> QED
      BY <1>3, <3>1, <3>2
  <2>2. AfterOrigin(origin[x], m) /\ origin[x] \in Nodes
    BY <1>2, <2>1 DEF CopyInv, OriginsOK, ServerTyped
  <2>3. left[m] # {} => source[m] \in Nodes
    BY DEF CopyInv, SourcesOK
  <2> QED
    BY <1>1, <1>5, <2>1, <2>2, <2>3 DEF AfterOrigin
<1>11. VictimsOK'
  BY <1>1 DEF VictimsOK
<1>12. PendingOK'
  <2>1. ASSUME NEW k \in Nodes, Pending(k) PROVE Pending(k)'
    BY <1>1, <2>1, StaysPending DEF Awaited
  <2>2. ASSUME NEW k \in Nodes, NEW m \in Nodes, Sharing(k, m)' PROVE Sharing(k, m)
    <3>1. CASE id = node[n].id
      BY <1>4, <2>2, <3>1 DEF Sharing
    <3>2. CASE \A j \in Nodes : node[j].id # id
      BY <1>4, <2>2, <3>2 DEF Sharing
    <3> QED
      BY <1>3, <3>1, <3>2
  <2> QED
    BY <1>1, <2>1, <2>2 DEF CopyInv, PendingOK
<1> QED
  BY <1>7, <1>8, <1>9, <1>10, <1>11, <1>12 DEF CopyInv

LEMMA SharedHaveIt ==
  ASSUME NEW n, NEW name \in SharedWith(n)
  PROVE  /\ name \in Names /\ n # NoNode /\ node[n].id # NoId
         /\ entry[name] # NoNode /\ node[entry[name]].id = node[n].id
  BY DEF SharedWith, Holders

\* The names of two files with the same id are among those that share it.
LEMMA SharedByTwo ==
  ASSUME NEW a \in Names, NEW b \in Names, a # b, NEW n, n # NoNode, node[n].id # NoId,
         entry[a] # NoNode, entry[b] # NoNode,
         node[entry[a]].id = node[n].id, node[entry[b]].id = node[n].id
  PROVE  {a, b} \subseteq SharedWith(n)
<1> DEFINE H == Holders(node[n].id)
<1>1. {a, b} \subseteq H /\ H \subseteq Names
  BY DEF Holders
<1>2. IsFiniteSet(H)
  BY <1>1, FS_Subset, CopyAssumption
<1>3. Cardinality({a}) = 1 /\ IsFiniteSet({a})
  BY FS_Singleton
<1>4. Cardinality({a} \cup {b}) = 2
  <2>1. b \notin {a}
    OBVIOUS
  <2>2. Cardinality({a} \cup {b}) = Cardinality({a}) + 1
    BY <1>3, <2>1, FS_AddElement
  <2> QED
    BY <1>3, <2>2
<1>5. {a, b} = {a} \cup {b}
  OBVIOUS
<1>6. Cardinality({a, b}) <= Cardinality(H) /\ Cardinality(H) \in Nat
  BY <1>1, <1>2, FS_Subset, FS_CardinalityType
<1>7. Cardinality(H) > 1
  BY <1>4, <1>5, <1>6
<1> QED
  BY <1>1, <1>7 DEF SharedWith

LEMMA HandleCreatedKeeps == ASSUME CopyInv, HandleCreated PROVE CopyInv'
<1>0. PICK h, n : h = Head(events) /\ n = entry[h]
  OBVIOUS
<1>1. /\ victims = {} /\ events # <<>> /\ events' = Tail(events)
      /\ missed' = missed \cup {k \in {n} \ {NoNode} :
                                  left[k] # {} /\ h \notin ToSet(Tail(events))}
      /\ UNCHANGED <<entry, node, source, left, created, running, origin, copies, moved>>
  BY <1>0 DEF HandleCreated, volume
<1>2. \/ SharedWith(n) = {} /\ UNCHANGED <<victims, oldest>>
      \/ \E keeper \in SharedWith(n) :
           /\ \A name \in SharedWith(n) \ {keeper} : Older(keeper, name)
           /\ victims' = SharedWith(n) \ {keeper}
           /\ oldest' = Created(keeper)
  BY <1>0 DEF HandleCreated
<1>3. VolumeTyped /\ ServerTyped
  BY DEF CopyInv
<1>4. /\ h \in Names /\ Tail(events) \in Seq(Names)
      /\ ToSet(events) \subseteq ToSet(Tail(events)) \cup {h}
  BY <1>0, <1>1, <1>3, EventTaken DEF ServerTyped
<1>5. ASSUME NEW name \in SharedWith(n)
      PROVE  /\ name \in Names /\ entry[name] \in Nodes /\ node[entry[name]].id = node[n].id
             /\ node[n].id \in Ids /\ node[entry[name]].created \in Nat
  <2>1. name \in Names /\ n # NoNode /\ node[n].id # NoId /\ entry[name] # NoNode
        /\ node[entry[name]].id = node[n].id
    BY SharedHaveIt
  <2>2. entry[name] \in Nodes /\ n \in Nodes
    BY <1>0, <1>3, <1>4, <2>1 DEF VolumeTyped
  <2> QED
    BY <1>3, <2>1, <2>2 DEF VolumeTyped, File
<1>6. VolumeTyped' /\ ServerTyped'
  <2>1. victims' \in SUBSET Names /\ oldest' \in Nat
    BY <1>2, <1>3, <1>5 DEF ServerTyped, Created
  <2> QED
    BY <1>1, <1>3, <1>4, <2>1 DEF VolumeTyped, ServerTyped
<1>7. NamesOK' /\ SourcesOK' /\ OriginsOK'
  BY <1>1 DEF CopyInv, NamesOK, SourcesOK, OriginsOK, AfterOrigin, There
<1>8. VictimsOK'
  <2>1. CASE SharedWith(n) = {} /\ UNCHANGED <<victims, oldest>>
    BY <1>1, <2>1 DEF VictimsOK
  <2>2. ASSUME NEW keeper \in SharedWith(n),
               \A name \in SharedWith(n) \ {keeper} : Older(keeper, name),
               victims' = SharedWith(n) \ {keeper}, oldest' = Created(keeper)
        PROVE  VictimsOK'
    <3> SUFFICES ASSUME NEW v \in SharedWith(n) \ {keeper}, NEW x \in Ids,
                        origin[x] = entry[v], node[entry[v]].id = x
                 PROVE  left[entry[v]] = {} /\ oldest' = node[entry[v]].created
      BY <1>1, <2>2 DEF VictimsOK, VictimOK
    <3>1. /\ v \in Names /\ entry[v] \in Nodes /\ node[entry[v]].created \in Nat
          /\ keeper \in Names /\ entry[keeper] \in Nodes /\ node[entry[keeper]].created \in Nat
          /\ node[entry[keeper]].id = x
      BY <1>5
    <3>2. entry[keeper] # entry[v] /\ origin[x] # NoNode
      BY <3>1, CopyAssumption DEF CopyInv, NamesOK
    <3>3. AfterOrigin(origin[x], entry[keeper])
      BY <3>1, <3>2 DEF CopyInv, OriginsOK
    <3>4. node[entry[keeper]].created <= node[entry[v]].created
      BY <2>2, <3>1 DEF Older, Created
    <3> QED
      BY <2>2, <3>1, <3>3, <3>4 DEF AfterOrigin, Created
  <2> QED
    BY <1>2, <2>1, <2>2
<1>9. PendingOK'
  <2>1. ASSUME NEW k \in Nodes, Pending(k), k # n \/ left[k] # {} PROVE Pending(k)'
    <3>1. CASE k \in missed
      BY <1>1, <3>1 DEF Pending
    <3>2. ASSUME NEW name \in Names, k \in Awaited(name) PROVE Pending(k)'
      <4>1. entry[name] = k /\ k # NoNode /\ k \in copies /\ name \in ToSet(events)
        BY <1>1, <3>2 DEF Awaited
      <4>2. CASE name \in ToSet(Tail(events))
        <5>1. k \in Awaited(name)'
          BY <1>1, <4>1, <4>2 DEF Awaited
        <5> QED
          BY <5>1 DEF Pending
      <4>3. CASE name \notin ToSet(Tail(events))
        <5>1. name = h /\ k = n
          BY <1>0, <1>4, <4>1, <4>3
        <5>2. k \in missed'
          BY <1>1, <2>1, <4>1, <4>3, <5>1
        <5> QED
          BY <5>2 DEF Pending
      <4> QED
        BY <4>2, <4>3
    <3> QED
      BY <2>1, <3>1, <3>2 DEF Pending
  <2>2. ASSUME NEW k \in Nodes, left'[k] # {} PROVE Pending(k)'
    BY <1>1, <2>1, <2>2 DEF CopyInv, PendingOK
  \* The other one has the id of n, too: one of the two is not the keeper.
  <2>3. ASSUME NEW m \in Nodes, Sharing(n, m), n \in Nodes PROVE Pending(n)' \/ Pending(m)'
    <3>1. There(n) /\ There(m) /\ n # NoNode /\ m # NoNode
      BY <2>3, CopyAssumption DEF CopyInv, NamesOK, Sharing
    <3>2. PICK b \in Names : entry[b] = m
      BY <3>1 DEF There
    <3>3. h # b /\ {h, b} \subseteq SharedWith(n)
      BY <1>0, <1>4, <2>3, <3>1, <3>2, SharedByTwo DEF Sharing
    <3>4. PICK keeper \in SharedWith(n) : victims' = SharedWith(n) \ {keeper}
      BY <1>2, <3>3
    <3>5. CASE h \in victims'
      <4>1. n \in Awaited(h)'
        BY <1>0, <1>1, <1>4, <3>1, <3>5 DEF Awaited
      <4> QED
        BY <1>4, <4>1 DEF Pending
    <3>6. CASE b \in victims'
      <4>1. m \in Awaited(b)'
        BY <1>1, <3>1, <3>2, <3>6 DEF Awaited
      <4> QED
        BY <4>1 DEF Pending
    <3> QED
      BY <3>3, <3>4, <3>5, <3>6
  <2>4. ASSUME NEW k \in Nodes, NEW m \in Nodes, Sharing(k, m)' PROVE Pending(k)' \/ Pending(m)'
    <3>1. Sharing(k, m) /\ Sharing(m, k)
      BY <1>1, <2>4 DEF Sharing
    <3>2. CASE k = n \/ m = n
      BY <2>3, <3>1, <3>2
    <3>3. CASE k # n /\ m # n
      BY <2>1, <3>1, <3>3 DEF CopyInv, PendingOK
    <3> QED
      BY <3>2, <3>3
  <2> QED
    BY <2>2, <2>4 DEF PendingOK
<1> QED
  BY <1>6, <1>7, <1>8, <1>9 DEF CopyInv

\* What is left of the identity of the file with the name, if there is one.
LEMMA Stripped ==
  ASSUME CopyInv, NEW name \in Names, NEW n, n = entry[name], Strip(name)
  PROVE  /\ node' \in [Nodes -> File]
         /\ \A k \in Nodes : k # n => node'[k] = node[k] /\ (k \in missed <=> k \in missed')
         /\ \A k \in Nodes : /\ node'[k].created = node[k].created
                             /\ node'[k].id \in {node[k].id, NoId}
         /\ n \in Nodes => \/ n \in missed'
                           \/ node'[n].id = NoId /\ node'[n].links = NoId /\ left[n] = {}
<1>1. VolumeTyped
  BY DEF CopyInv
<1>2. \/ n = NoNode /\ UNCHANGED <<node, missed>>
      \/ \E removed \in SUBSET Attributes :
           /\ n # NoNode /\ node' = RemoveIdentityAttrs(n, removed)
           /\ \/ missed' = missed \cup {n}
              \/ removed = Attributes /\ left[n] = {} /\ missed' = missed \ {n}
  <2>1. CASE n = NoNode /\ UNCHANGED <<node, missed>>
    BY <2>1
  <2>2. CASE /\ n # NoNode /\ node' = RemoveIdentityAttrs(n, Attributes)
             /\ missed' = IF left[n] # {} THEN missed \cup {n} ELSE missed \ {n}
    <3>1. Attributes \in SUBSET Attributes
      OBVIOUS
    <3>2. missed' = missed \cup {n} \/ (left[n] = {} /\ missed' = missed \ {n})
      BY <2>2
    <3> QED
      BY <2>2, <3>1, <3>2, Zenon
  <2>3. CASE \E removed \in SUBSET Attributes \ {Attributes} :
               /\ n \in Refusing
               /\ node' = RemoveIdentityAttrs(n, removed)
               /\ missed' = missed \cup {n}
    BY <2>3, CopyAssumption
  <2> QED
    BY <2>1, <2>2, <2>3, Zenon DEF Strip
<1>3. CASE n = NoNode /\ UNCHANGED <<node, missed>>
  BY <1>1, <1>3, CopyAssumption DEF VolumeTyped
<1>4. ASSUME NEW removed \in SUBSET Attributes, n # NoNode, node' = RemoveIdentityAttrs(n, removed),
             \/ missed' = missed \cup {n}
             \/ removed = Attributes /\ left[n] = {} /\ missed' = missed \ {n}
      PROVE  /\ node' \in [Nodes -> File]
             /\ \A k \in Nodes : k # n => node'[k] = node[k] /\ (k \in missed <=> k \in missed')
             /\ \A k \in Nodes : /\ node'[k].created = node[k].created
                                 /\ node'[k].id \in {node[k].id, NoId}
             /\ n \in Nodes => \/ n \in missed'
                               \/ node'[n].id = NoId /\ node'[n].links = NoId /\ left[n] = {}
  <2>1. n \in Nodes /\ node[n] \in File
    BY <1>1, <1>4 DEF VolumeTyped
  <2>2. node' = [node EXCEPT ![n].id = IF "id" \in removed THEN NoId ELSE node[n].id,
                             ![n].links = IF "links" \in removed THEN NoId ELSE node[n].links]
    BY <1>4 DEF RemoveIdentityAttrs
  <2>3. /\ node'[n] \in File /\ node'[n].created = node[n].created
        /\ node'[n].id = IF "id" \in removed THEN NoId ELSE node[n].id
        /\ node'[n].links = IF "links" \in removed THEN NoId ELSE node[n].links
    BY <1>1, <2>1, <2>2 DEF VolumeTyped, File
  <2>4. \A k \in Nodes : k # n => node'[k] = node[k]
    BY <1>1, <2>2 DEF VolumeTyped
  <2>5. node' \in [Nodes -> File]
    BY <1>1, <2>2, <2>3, <2>4 DEF VolumeTyped
  <2>6. removed = Attributes => node'[n].id = NoId /\ node'[n].links = NoId
    BY <2>3 DEF Attributes
  <2> QED
    BY <1>4, <2>3, <2>4, <2>5, <2>6
<1> QED
  BY <1>2, <1>3, <1>4

LEMMA StripKeeps == ASSUME CopyInv, NEW name \in Names, Strip(name) PROVE CopyInv'
<1>0. PICK n : n = entry[name]
  OBVIOUS
<1>1. /\ node' \in [Nodes -> File]
      /\ \A k \in Nodes : k # n => node'[k] = node[k] /\ (k \in missed <=> k \in missed')
      /\ \A k \in Nodes : /\ node'[k].created = node[k].created
                          /\ node'[k].id \in {node[k].id, NoId}
      /\ n \in Nodes => n \in missed' \/ (node'[n].id = NoId /\ left[n] = {})
  BY <1>0, Stripped
<1>2. /\ victims' = victims \ {name}
      /\ oldest' = IF victims' = {} THEN 0 ELSE oldest
      /\ moved' = IF victims' = {} THEN {} ELSE moved
      /\ UNCHANGED <<entry, source, left, created, running, events, origin, copies>>
  BY DEF Strip
<1>3. VolumeTyped /\ ServerTyped
  BY DEF CopyInv
<1>4. VolumeTyped' /\ ServerTyped'
  BY <1>1, <1>2, <1>3 DEF VolumeTyped, ServerTyped
<1>5. NamesOK'
  BY <1>1, <1>2 DEF CopyInv, NamesOK, There
<1>6. SourcesOK'
  BY <1>1, <1>2 DEF CopyInv, SourcesOK, There
<1>7. OriginsOK'
  <2> SUFFICES ASSUME NEW x \in Ids, NEW m \in Nodes,
                      origin[x] # NoNode, m # origin[x], node'[m].id = x
               PROVE  AfterOrigin(origin[x], m)'
    BY <1>2 DEF OriginsOK
  <2>1. AfterOrigin(origin[x], m) /\ origin[x] \in Nodes
    BY <1>1, <1>3, CopyAssumption DEF CopyInv, OriginsOK, ServerTyped
  <2>2. left[m] # {} => source[m] \in Nodes
    BY DEF CopyInv, SourcesOK
  <2> QED
    BY <1>1, <1>2, <2>1, <2>2 DEF AfterOrigin
<1>8. VictimsOK'
  <2> SUFFICES ASSUME NEW v \in victims', NEW x \in Ids, entry[v] # NoNode, entry[v] \notin moved',
                      origin[x] = entry[v], node'[entry[v]].id = x
               PROVE  left[entry[v]] = {} /\ oldest' = node'[entry[v]].created
    BY <1>2 DEF VictimsOK, VictimOK
  <2>1. v \in victims /\ oldest' = oldest /\ moved' = moved /\ entry[v] \in Nodes
    BY <1>2, <1>3 DEF ServerTyped, VolumeTyped
  <2>2. node[entry[v]].id = x
    BY <1>1, <2>1, CopyAssumption
  <2> QED
    BY <1>1, <2>1, <2>2 DEF CopyInv, VictimsOK, VictimOK
<1>9. PendingOK'
  <2>1. ASSUME NEW k \in Nodes, Pending(k), k # n PROVE Pending(k)'
    <3>1. \A nm \in Names : k \in Awaited(nm) => k \in Awaited(nm)'
      BY <1>0, <1>2, <2>1 DEF Awaited
    <3> QED
      BY <1>1, <2>1, <3>1 DEF Pending
  <2>2. ASSUME NEW k \in Nodes, left'[k] # {} PROVE Pending(k)'
    <3>1. CASE k = n
      BY <1>1, <1>2, <2>2, <3>1 DEF Pending
    <3> QED
      BY <1>2, <2>1, <2>2, <3>1 DEF CopyInv, PendingOK
  <2>3. ASSUME NEW k \in Nodes, NEW m \in Nodes, Sharing(k, m)' PROVE Pending(k)' \/ Pending(m)'
    <3>1. CASE k = n \/ m = n
      BY <1>1, <2>3, <3>1 DEF Sharing, Pending
    <3>2. CASE k # n /\ m # n
      <4>1. Sharing(k, m)
        BY <1>1, <2>3, <3>2 DEF Sharing
      <4> QED
        BY <2>1, <3>2, <4>1 DEF CopyInv, PendingOK
    <3> QED
      BY <3>1, <3>2
  <2> QED
    BY <2>2, <2>3 DEF PendingOK
<1> QED
  BY <1>4, <1>5, <1>6, <1>7, <1>8, <1>9 DEF CopyInv

\* Whatever waits is missed.
LEMMA StopKeeps == ASSUME CopyInv, Stop PROVE CopyInv'
<1>1. /\ events' = <<>> /\ victims' = {} /\ oldest' = 0 /\ running' = FALSE
      /\ missed' = missed \cup UNION {Awaited(name) : name \in Names}
      /\ UNCHANGED <<entry, node, source, left, created, origin, copies>>
  BY DEF Stop, volume
<1>2. VolumeTyped' /\ ServerTyped'
  <2>1. <<>> \in Seq(Names) /\ 0 \in Nat /\ {} \in SUBSET Names /\ FALSE \in BOOLEAN
    OBVIOUS
  <2>2. events' \in Seq(Names) /\ oldest' \in Nat /\ victims' \in SUBSET Names /\ running' \in BOOLEAN
    BY <1>1, <2>1, Zenon
  <2> QED
    BY <1>1, <2>2 DEF CopyInv, VolumeTyped, ServerTyped
<1>3. NamesOK' /\ SourcesOK' /\ OriginsOK'
  BY <1>1 DEF CopyInv, NamesOK, SourcesOK, OriginsOK, AfterOrigin, There
<1>4. VictimsOK'
  BY <1>1 DEF VictimsOK
<1>5. \A k \in Nodes : Pending(k) => Pending(k)'
  BY <1>1 DEF Pending
<1>6. PendingOK'
  BY <1>1, <1>5 DEF CopyInv, PendingOK, Sharing
<1> QED
  BY <1>2, <1>3, <1>4, <1>6 DEF CopyInv

LEMMA RunningKeeps ==
  ASSUME CopyInv, running' \in BOOLEAN,
         UNCHANGED <<volume, events, victims, oldest, origin, copies, missed, moved>>
  PROVE  CopyInv'
<1>1. VolumeTyped' /\ ServerTyped'
  BY DEF CopyInv, VolumeTyped, ServerTyped, volume
<1>2. NamesOK' /\ SourcesOK' /\ OriginsOK'
  BY DEF CopyInv, NamesOK, SourcesOK, OriginsOK, AfterOrigin, There, volume
<1>3. VictimsOK'
  BY DEF CopyInv, VictimsOK, VictimOK, volume
<1>4. PendingOK'
  BY DEF CopyInv, PendingOK, Pending, Awaited, Sharing, volume
<1> QED
  BY <1>1, <1>2, <1>3, <1>4 DEF CopyInv

-----------------------------------------------------------------------------
(* The theorems *)

LEMMA InitCopy == Init => CopyInv
<1> SUFFICES ASSUME Init PROVE CopyInv
  OBVIOUS
<1>1. \A n \in Nodes : node[n] = NoAttributes /\ left[n] = {} /\ NoAttributes.id = NoId
                       /\ NoAttributes.created = 0 /\ NoAttributes \in File
  BY DEF Init, NoAttributes, File
<1>2. VolumeTyped /\ ServerTyped
  BY <1>1 DEF Init, VolumeTyped, ServerTyped
<1>3. NamesOK /\ SourcesOK /\ OriginsOK /\ VictimsOK /\ PendingOK
  BY <1>1 DEF Init, NamesOK, SourcesOK, OriginsOK, VictimsOK, PendingOK, Sharing
<1> QED
  BY <1>2, <1>3 DEF CopyInv

LEMMA NextCopy == CopyInv /\ [Next]_vars => CopyInv'
<1> SUFFICES ASSUME CopyInv, [Next]_vars PROVE CopyInv'
  OBVIOUS
<1>1. CASE Users
  BY <1>1, CreateFileKeeps, BeginCopyKeeps, CopyAttrKeeps, RenameKeeps, DeleteKeeps DEF Users
<1>2. CASE Server
  <2>1. CASE Start
    BY <2>1, RunningKeeps DEF Start, history
  <2>2. ASSUME NEW name \in Names, Strip(name) PROVE CopyInv'
    BY <2>2, StripKeeps
  <2> QED
    BY <1>2, <2>1, <2>2, AddRelationKeeps, HandleCreatedKeeps, StopKeeps DEF Server
<1>3. CASE UNCHANGED vars
  BY <1>3, RunningKeeps DEF vars, server, history, CopyInv, ServerTyped
<1> QED
  BY <1>1, <1>2, <1>3 DEF Next

\* The invariant of the copies: what shares an id with another file, is pending or is missed; and
\* a file that an id was made for is complete, and not newer than those that have it too.
THEOREM CopiesInvariant == Spec => []CopyInv
  BY InitCopy, NextCopy, PTL DEF Spec

\* When no event waits no two complete files have the same id, except those that the server missed
\* (SenServer::HandleEntryCreated), for any number of files, and whatever is created, copied,
\* renamed and deleted between the events, the steps and the runs of the server.
THEOREM SharingIsAlwaysMissed == Spec => []SharingWasMissed
<1>1. CopyInv => SharingWasMissed
  <2> SUFFICES ASSUME CopyInv, events = <<>>, victims = {}, NEW m \in Nodes, NEW n \in Nodes,
                      m # n, node[m].id = node[n].id, node[n].id # NoId
               PROVE  m \in missed \/ n \in missed
    BY DEF SharingWasMissed
  <2>1. Pending(m) \/ Pending(n)
    BY DEF CopyInv, PendingOK, Sharing
  <2> QED
    BY <2>1, NoEvents DEF Pending, Awaited
<1> QED
  BY <1>1, CopiesInvariant, PTL

\* The id of a file n is taken from it only while it is being copied itself, or when its keeper is
\* as old, or when it got another name meanwhile.
LEMMA IdIsKept ==
  ASSUME CopyInv, Next, NEW n \in Nodes, NEW x \in Ids,
         origin[x] = n, node[n].id = x, origin'[x] = n, node'[n].id # x
  PROVE  left[n] # {} \/ oldest = node[n].created \/ n \in moved
<1>1. There(n) /\ VolumeTyped /\ n # NoNode
  BY CopyAssumption DEF CopyInv, NamesOK
<1>2. ASSUME NEW name \in Names, NEW k \in Nodes, NewEntry(name, k) PROVE FALSE
  BY <1>1, <1>2 DEF NewEntry, VolumeTyped
<1>3. ASSUME NEW k \in Nodes, NEW a \in Attributes, CopyAttr(k, a) PROVE left[n] # {}
  BY <1>3, CopiedAttr
<1>4. ASSUME NEW name \in Names, Delete(name) PROVE FALSE
  BY <1>1, <1>4 DEF Delete, VolumeTyped
<1>5. ASSUME NEW k \in Nodes, AddRelation(k) PROVE FALSE
  <2>1. CASE node[k].id # NoId /\ node' = [node EXCEPT ![k].links = IF node[k].links = NoId THEN node[k].id ELSE node[k].links]
    BY <1>1, <2>1 DEF VolumeTyped, File
  <2>2. CASE node[k].id = NoId
    <3>1. k # n
      BY <2>2, CopyAssumption
    <3> QED
      BY <1>1, <1>5, <3>1 DEF AddRelation, VolumeTyped
  <2> QED
    BY <1>5, <2>1, <2>2 DEF AddRelation
<1>6. ASSUME NEW name \in Names, Strip(name) PROVE oldest = node[n].created \/ n \in moved
  <2>1. entry[name] = n
    BY <1>6, Stripped
  <2>2. name \in victims
    BY <1>6 DEF Strip
  <2> QED
    BY <1>1, <2>1, <2>2 DEF CopyInv, VictimsOK, VictimOK
<1>7. CASE UNCHANGED node
  BY <1>7
<1> QED
  BY <1>2, <1>3, <1>4, <1>5, <1>6, <1>7
  DEF Next, Users, Server, CreateFile, BeginCopy, Rename, HandleCreated, Stop, Start, volume

\* The server never takes an id from the file that it was made for (SenServer::HandleEntryCreated: all
\* but the oldest are copies), except for a copy that took over its age, or when files
\* got other names meanwhile.
THEOREM OriginalAlwaysKeepsId == Spec => OriginalKeepsId
<1>1. CopyInv /\ [Next]_vars =>
        [\A n \in Nodes, x \in Ids :
           origin[x] = n /\ node[n].id = x /\ origin'[x] = n /\ node'[n].id # x
             => left[n] # {} \/ oldest = node[n].created \/ n \in moved]_vars
  BY IdIsKept
<1> QED
  BY <1>1, CopiesInvariant, PTL DEF Spec, OriginalKeepsId

-----------------------------------------------------------------------------
(* Relations are those of the file *)

LEMMA NextOwn == CopyInv /\ RelationsAreOwn /\ [Next]_vars => RelationsAreOwn'
<1> SUFFICES ASSUME CopyInv, RelationsAreOwn, [Next]_vars,
                    NEW n \in Nodes, n \notin missed', left'[n] = {}
             PROVE  Own(node'[n])
  BY DEF RelationsAreOwn
<1>1. VolumeTyped /\ node[n] \in File
  BY DEF CopyInv, VolumeTyped
<1>2. ASSUME node'[n] = node[n], n \notin missed, left[n] = {} PROVE Own(node'[n])
  BY <1>2 DEF RelationsAreOwn
<1>3. ASSUME node'[n].links = NoId PROVE Own(node'[n])
  BY <1>3 DEF Own
<1>4. ASSUME NEW name \in Names, NEW k \in Nodes, CreateFile(name, k) PROVE Own(node'[n])
  <2>1. CASE n = k
    BY <1>1, <1>3, <1>4, <2>1 DEF CreateFile, NewEntry, VolumeTyped, NoAttributes
  <2>2. CASE n # k
    BY <1>1, <1>2, <1>4, <2>2 DEF CreateFile, NewEntry, VolumeTyped
  <2> QED
    BY <2>1, <2>2
<1>5. ASSUME NEW m \in Nodes, NEW name \in Names, NEW k \in Nodes, BeginCopy(m, name, k)
      PROVE  Own(node'[n])
  <2>1. n # k
    BY <1>1, <1>5 DEF BeginCopy, VolumeTyped, Attributes
  <2> QED
    BY <1>1, <1>2, <1>5, <2>1 DEF BeginCopy, NewEntry, VolumeTyped
<1>6. ASSUME NEW k \in Nodes, NEW a \in Attributes, CopyAttr(k, a) PROVE Own(node'[n])
  <2>1. CASE n = k
    BY <1>6, <2>1, CopiedAttr
  <2>2. CASE n # k
    BY <1>2, <1>6, <2>2, CopiedAttr
  <2> QED
    BY <2>1, <2>2
<1>7. ASSUME NEW name \in Names, Delete(name) PROVE Own(node'[n])
  <2>1. CASE n = entry[name]
    BY <1>1, <1>3, <1>7, <2>1 DEF Delete, VolumeTyped, NoAttributes
  <2>2. CASE n # entry[name]
    BY <1>1, <1>2, <1>7, <2>2 DEF Delete, VolumeTyped
  <2> QED
    BY <2>1, <2>2
<1>8. ASSUME NEW k \in Nodes, AddRelation(k) PROVE Own(node'[n])
  <2>1. n \notin missed /\ left[n] = {} /\ Own(node[n])
    BY <1>8 DEF AddRelation, RelationsAreOwn
  <2>2. CASE n # k
    BY <1>1, <1>2, <1>8, <2>1, <2>2 DEF AddRelation, VolumeTyped
  <2>3. CASE /\ n = k /\ node[n].id # NoId
             /\ node' = [node EXCEPT ![n].links = IF node[n].links = NoId THEN node[n].id ELSE node[n].links]
    BY <1>1, <2>1, <2>3 DEF VolumeTyped, File, Own
  <2>4. ASSUME n = k, node[n].id = NoId, NEW x,
               node' = [node EXCEPT ![n].id = x, ![n].links = IF node[n].links = NoId THEN x ELSE node[n].links]
        PROVE  Own(node'[n])
    BY <1>1, <2>1, <2>4 DEF VolumeTyped, File, Own
  <2> QED
    BY <1>8, <2>2, <2>3, <2>4 DEF AddRelation
<1>9. ASSUME NEW name \in Names, Strip(name) PROVE Own(node'[n])
  <2>1. left[n] = {}
    BY <1>9 DEF Strip
  <2>2. CASE n = entry[name]
    BY <1>3, <1>9, <2>2, Stripped
  <2>3. CASE n # entry[name]
    BY <1>2, <1>9, <2>1, <2>3, Stripped
  <2> QED
    BY <2>2, <2>3
<1>10. CASE UNCHANGED <<node, left>> /\ missed \subseteq missed'
  BY <1>2, <1>10
<1> QED
  BY <1>4, <1>5, <1>6, <1>7, <1>8, <1>9, <1>10
  DEF Next, Users, Server, Rename, HandleCreated, Stop, Start, vars, volume, history

\* A copy loses the relations with the id: of a complete file that the server did not miss the
\* relations were stored under the id that it has (SenServer.h, RemoveIdentityAttrs).
THEOREM RelationsAreAlwaysOwn == Spec => []RelationsAreOwn
<1>1. Init => RelationsAreOwn
  BY DEF Init, RelationsAreOwn, Own, NoAttributes
<1> QED
  BY <1>1, NextOwn, CopiesInvariant, PTL DEF Spec

=============================================================================
