------------------------------ MODULE Relations ------------------------------
(***************************************************************************)
(* The relations that the server keeps in the attributes of files, and the *)
(* requests that change them (relations/RelationWrite.cpp,                 *)
(* relations/RelationSticky.cpp).  The handler runs in the looper of the   *)
(* server, so a request is one step here; RelationTx takes it apart into   *)
(* the writes of its attributes.                                           *)
(*                                                                         *)
(* A file stands for itself and for the SEN:ID it gets: an id is generated *)
(* once and is unique.                                                     *)
(***************************************************************************)
EXTENDS RelationSets

CONSTANTS Files,            \* the files, with their SEN:ID
          Classifications,  \* the files that are classification entities
          Types,            \* the relation types
          Association,      \* the type of meta relations (in Types or not)
          Bidirectional,    \* the types whose config says bidirectional
          InverseLabel,     \* the label the config of a type gives the inverse
          Inputs,           \* the property sets that clients send
          Updates,          \* the properties of updates, or NoProperties
          Senders,          \* the signatures of clients, or NoCreator
          OwnLabels,        \* the labels clients ask for the inverse, or NoLabel
          RemoveModes,      \* how clients remove: "plain", "override", "stale"
          NoData,           \* no properties but those that are fields here
          Copied,           \* the files that get copied with their attributes
          Deleted,          \* the files that get deleted
          Sticking,         \* the classifications that get sticky
          Server,           \* the signature of the server (a provenance)
          NoProperties,     \* an update without new properties
          NoFile,           \* an update without new target
          NoType,           \* an update without new type
          MaxSets,          \* bound: property sets of one pair of files
          MaxStored,        \* bound: property sets of all files
          MaxIds            \* sen::idlist::kMaxIds: targets in one list

ASSUME FilesAssumption ==
  /\ Classifications \subseteq Files
  /\ Copied \subseteq Files
  /\ Deleted \subseteq Files
  /\ Sticking \subseteq Classifications
  /\ Bidirectional \subseteq Types
  /\ NoFile \notin Files
  /\ NoType \notin Types

ASSUME BoundsAssumption == MaxSets \in Nat /\ MaxStored \in Nat /\ MaxIds \in Nat

\* All that is known of id::New(): the ids of a request are new, and different.
ASSUME NewIdAssumption ==
  \A used \in SUBSET RelIds : Cardinality(used) <= 2 * MaxSets =>
    \A k \in 1 .. 2 * (MaxSets + 1) :
      /\ NewId(used, k) \in RelIds \ used
      /\ \A j \in 1 .. k - 1 : NewId(used, j) # NewId(used, k)

VARIABLES files,      \* the files that are there
          ids,        \* the files that have a SEN:ID
          ambiguous,  \* the files whose id is also on a copy that was not found yet
          sticky,     \* the classifications with the attribute SEN:sticky
          rel,        \* SEN:REL:<type>: source, type, target -> property sets
          list        \* SEN:TO and SEN:META: file, list -> targets

vars == <<files, ids, ambiguous, sticky, rel, list>>

attributes == <<rel, list>>

Lists == {"SEN:TO", "SEN:META"}

Sent == Inputs \cup (Updates \ {NoProperties})

Labels == {NoLabel} \cup {p.label : p \in Sent} \cup OwnLabels \cup {InverseLabel[T] : T \in Types}

PropertySet ==
  [label : Labels,
   data : {NoData} \cup {p.data : p \in Sent},
   classifications : SUBSET Files,
   readonly : BOOLEAN,
   provenance : {NoCreator, Server} \cup Senders \cup {p.provenance : p \in Sent},
   rid : RelIds \cup {NoRelationId}]

ASSUME SentAssumption == Sent \subseteq PropertySet

-----------------------------------------------------------------------------
(* What is read from a file or a config *)

IsMetaRelation(T) == T = Association

ListAttrFor(T) == IF IsMetaRelation(T) THEN "SEN:META" ELSE "SEN:TO"

ShouldWriteInverse(T, s, t) ==
  T \in Bidirectional \/ (s \in Classifications /\ t \in Classifications)

InverseProperties(T, p) ==
  [p EXCEPT !.rid = NoRelationId,
            !.label = IF InverseLabel[T] # NoLabel THEN InverseLabel[T] ELSE p.label]

\* QueryForUniqueSenId finds the one file with the id.
Resolves(f) == f \in files /\ f \in ids /\ f \notin ambiguous

ReadOnlyAt(sets) == {i \in DOMAIN sets : sets[i].readonly}

Store == [rel |-> rel, list |-> list]

-----------------------------------------------------------------------------
(* AddRelationTx for each <<source, target>> of edges (one, or the files    *)
(* and the sticky classifications; never both directions of a pair): p is  *)
(* what the source gets, q what the inverse gets.                          *)

\* The ids for new sets: of the source, and others for the target.
NewIds(r, T, s, t, from) ==
  LET used == UsedIds(r[s][T][t]) \cup UsedIds(r[t][T][s])
  IN [k \in 1 .. MaxSets + 1 |-> NewId(used, from + k)]

ForwardIds(r, T, s, t) == NewIds(r, T, s, t, 0)

InverseIds(r, T, s, t) == NewIds(r, T, s, t, MaxSets + 1)

Forward(r, T, s, t, p) ==
  IF InUse(r[s][T][t], p)
  THEN FillProvenance(r[s][T][t], p)
  ELSE AddSet(r[s][T][t], p, ForwardIds(r, T, s, t))

Opposite(r, T, s, t, p, q) ==
  LET forward == r[s][T][t]
      inverse == r[t][T][s]
      added   == IF InUse(inverse, q) THEN inverse ELSE AddSet(inverse, q, InverseIds(r, T, s, t))
  IN IF InUse(forward, p)
     THEN IF CanFill(forward, p) THEN FillProvenance(inverse, InverseProperties(T, p)) ELSE inverse
     ELSE IF Len(added) = Len(forward) + 1
          THEN CopyIds(Forward(r, T, s, t, p), added)
          ELSE added        \* "not in step", only logged

AddTx(st, edges, T, p, q) ==
  LET Inverts(s, t) == <<s, t>> \in edges /\ s # t /\ ShouldWriteInverse(T, s, t)
      Added(s, t) == ~InUse(st.rel[s][T][t], p)
      L == ListAttrFor(T)
  IN [rel |-> [f \in Files |-> [st.rel[f] EXCEPT ![T] = [g \in Files |->
                IF <<f, g>> \in edges THEN Forward(st.rel, T, f, g, p)
                ELSE IF Inverts(g, f) THEN Opposite(st.rel, T, g, f, p, q)
                ELSE @[g]]]],
      list |-> [f \in Files |-> [st.list[f] EXCEPT ![L] =
                @ \cup {g \in Files : \/ (<<f, g>> \in edges /\ Added(f, g))
                                      \/ (Inverts(g, f) /\ Added(g, f))}]]]

-----------------------------------------------------------------------------
(* RemoveRelationTx.  The inverse is looked up whether or not the type is  *)
(* bidirectional, and only if the target is found by its id.               *)

FindsInverse(s, t) == Resolves(t) /\ t # s /\ s \in ids

\* The inverse after the set with relation id rid was removed at the source.
InverseWithout(inverse, rid) ==
  LET found == FindSet(inverse, rid) IN
  IF found = {} THEN inverse ELSE RemoveSet(inverse, First(found))

\* Fault: the target leaves the list with the first of its sets.
UnlistedAtOnce(targets, g, sets) == targets \ {g}

\* Fault: the target stays in the list.
StillListed(targets, g, sets) == targets

\* The list of a file after the sets of target g were stored.
Unlisted(targets, g, sets) == IF sets = <<>> THEN targets \ {g} ELSE targets

\* The change of one pair of directions, and of the lists of both files.
StorePair(st, T, s, t, forward, inverse) ==
  LET L == ListAttrFor(T)
      found == s # t /\ st.rel[t][T][s] # <<>>
  IN [rel  |-> [f \in Files |-> [st.rel[f] EXCEPT ![T] = [g \in Files |->
                 IF f = s /\ g = t THEN forward ELSE IF f = t /\ g = s THEN inverse ELSE @[g]]]],
      list |-> [f \in Files |-> [st.list[f] EXCEPT ![L] =
                 IF f = s THEN Unlisted(@, t, forward)
                 ELSE IF f = t /\ found THEN Unlisted(@, s, inverse) ELSE @]]]

\* Fault: the opposite direction is forgotten.
RemoveOneOfSource(st, s, T, t, i) ==
  StorePair(st, T, s, t, RemoveSet(st.rel[s][T][t], i), st.rel[t][T][s])

RemoveOne(st, s, T, t, i) ==
  StorePair(st, T, s, t,
            RemoveSet(st.rel[s][T][t], i),
            IF FindsInverse(s, t)
            THEN InverseWithout(st.rel[t][T][s], st.rel[s][T][t][i].rid)
            ELSE st.rel[t][T][s])

\* allSets: every set of the pairs <<type, target>> in gone.
RemoveWhole(st, s, gone) ==
  LET Inverts(T, f) == <<T, f>> \in gone /\ FindsInverse(s, f) IN
  [rel |-> [f \in Files |-> [T \in Types |-> [g \in Files |->
             IF (f = s /\ <<T, g>> \in gone) \/ (g = s /\ Inverts(T, f))
             THEN <<>>
             ELSE st.rel[f][T][g]]]],
   list |-> [f \in Files |-> [L \in Lists |->
             IF f = s
             THEN st.list[f][L] \ {g \in Files : \E T \in Types : ListAttrFor(T) = L /\ <<T, g>> \in gone}
             ELSE IF \E T \in Types : /\ ListAttrFor(T) = L
                                      /\ Inverts(T, f)
                                      /\ st.rel[f][T][s] # <<>>
             THEN st.list[f][L] \ {s}
             ELSE st.list[f][L]]]]

-----------------------------------------------------------------------------
(* Requests *)

FitsBounds(st) ==
  /\ MapThenSumSet(LAMBDA k : Len(st.rel[k[1]][k[2]][k[3]]), Files \X Types \X Files) <= MaxStored
  /\ \A f, g \in Files, T \in Types : Len(st.rel[f][T][g]) <= MaxSets

\* No list is longer than kMaxIds: AddToIdList says B_BUFFER_OVERFLOW.
FitsLists(st) == \A f \in Files, L \in Lists : Cardinality(st.list[f][L]) <= MaxIds

Commit(st) == rel' = st.rel /\ list' = st.list

\* A step fails (a full list, a file that is gone, an error of the volume):
\* Restore puts the attributes back.  The SEN:IDs that were made so far, in
\* this order, stay.
Fail(before, s, t) ==
  /\ ids' \in {ids \cup (made \cap files) : made \in {before, before \cup {s}, before \cup {s, t}}}
  /\ UNCHANGED attributes

\* The classifications that stick.
StickyClassifications == sticky \cap files

ListsSticky(T, p) == ~IsMetaRelation(T) /\ p.classifications = {} /\ ~p.readonly

\* The sticky classifications that get an id because the relation lists them.
StickyIds(T, p) == IF ListsSticky(T, p) THEN StickyClassifications ELSE {}

\* What AddRelation stores: with the sender and the sticky classifications.
AddedProperties(T, p, sender) ==
  [p EXCEPT !.provenance = IF p.provenance # NoCreator THEN p.provenance ELSE sender,
            !.classifications = IF ListsSticky(T, p) THEN StickyClassifications ELSE p.classifications,
            !.rid = NoRelationId]

AddedInverse(T, p, own) ==
  [InverseProperties(T, p) EXCEPT !.label = IF own # NoLabel THEN own ELSE @]

\* An association is stored with the file, also when the label was dropped on it.
Swaps(T, source, target) ==
  IsMetaRelation(T) /\ source \in Classifications /\ target \notin Classifications

AddRelation(source, target, T, properties, sender, own) ==
  LET s    == IF Swaps(T, source, target) THEN target ELSE source
      t    == IF Swaps(T, source, target) THEN source ELSE target
      made == StickyIds(T, properties)
      p    == AddedProperties(T, properties, sender)
      new  == AddTx(Store, {<<s, t>>}, T, p, AddedInverse(T, p, own))
  IN /\ s \in files
     /\ \/ /\ t \in files
           /\ FitsBounds(new) /\ FitsLists(new)
           /\ Commit(new)
           /\ ids' = ids \cup {s, t} \cup made
        \/ Fail(made, s, t)
     /\ UNCHANGED <<files, ambiguous, sticky>>

\* Fault: the read-only flag is not looked at.
AddressedAnyway(sets, rid, override) == {i \in FindSet(sets, rid) : i = First(FindSet(sets, rid))}

\* The set of the request, if it is there and may be changed: FindSet, IsReadOnly.
Addressed(sets, rid, override) ==
  {i \in FindSet(sets, rid) : i = First(FindSet(sets, rid)) /\ (sets[i].readonly => override)}

RemoveRelation(s, T, t, rid, mode) ==
  /\ s \in files
  /\ \E i \in Addressed(rel[s][T][t], rid, mode = "override") : Commit(RemoveOne(Store, s, T, t, i))
  /\ UNCHANGED <<files, ids, ambiguous, sticky>>

\* The sets of a target are removed together; read-only ones only with the override.
RemovesAll(sets, mode) ==
  sets # <<>> /\ (mode = "plain" => ReadOnlyAt(sets) = {})

RemoveRelationAllSets(s, T, t, mode) ==
  /\ s \in files
  /\ RemovesAll(rel[s][T][t], mode)
  /\ Commit(RemoveWhole(Store, s, {<<T, t>>}))
  /\ UNCHANGED <<files, ids, ambiguous, sticky>>

\* Stale: only read-only relations, and relations to a target that is gone.
Stale(sets, t) == ReadOnlyAt(sets) = DOMAIN sets \/ ~Resolves(t)

RemoveAllRelations(s, types, mode) ==
  /\ s \in files
  /\ Commit(RemoveWhole(Store, s,
       {k \in types \X Files : /\ RemovesAll(rel[s][k[1]][k[2]], mode)
                               /\ mode = "stale" => Stale(rel[s][k[1]][k[2]], k[2])}))
  /\ UNCHANGED <<files, ids, ambiguous, sticky>>

\* New properties for a set and for its inverse, which keeps its own label.
ReplaceInverse(T, inverse, rid, p) ==
  LET found == FindSet(inverse, rid)
      label == inverse[First(found)].label
      new   == InverseProperties(T, p)
  IN IF found = {}
     THEN inverse
     ELSE ReplaceSet(inverse, First(found), IF label = NoLabel THEN new ELSE [new EXCEPT !.label = label])

Replace(st, s, T, t, i, p) ==
  StorePair(st, T, s, t,
            ReplaceSet(st.rel[s][T][t], i, p),
            IF FindsInverse(s, t)
            THEN ReplaceInverse(T, st.rel[t][T][s], st.rel[s][T][t][i].rid, p)
            ELSE st.rel[t][T][s])

\* A relation moves: it is added at its new place, then removed from the old one.
UpdateRelation(s, T, t, rid, properties, newTarget, newType, mode) ==
  LET to == IF newTarget = NoFile THEN t ELSE newTarget
      U  == IF newType = NoType THEN T ELSE newType
  IN /\ s \in files
     /\ \E i \in Addressed(rel[s][T][t], rid, mode = "override") :
          LET replaced == IF properties = NoProperties THEN Store ELSE Replace(Store, s, T, t, i, properties)
              set      == WithoutId(replaced.rel[s][T][t][i])
              added    == AddTx(replaced, {<<s, to>>}, U, set, InverseProperties(U, set))
          IN \/ /\ to = t /\ U = T
                /\ newTarget = NoFile => (newType = NoType \/ Resolves(t))
                /\ newTarget # NoFile => t \in files
                /\ Commit(replaced)
                /\ UNCHANGED ids
             \/ /\ to # t \/ U # T
                /\ to \in files
                /\ newTarget = NoFile => Resolves(t)
                /\ FitsBounds(added) /\ FitsLists(added)
                /\ Commit(RemoveOne(added, s, T, t, i))
                /\ ids' = ids \cup {s, to}
             \/ /\ to # t \/ U # T
                /\ newTarget = NoFile => Resolves(t)
                /\ Fail({}, s, to)
     /\ UNCHANGED <<files, ambiguous, sticky>>

\* What the server stores for a file that was made new.
Plain == [label |-> NoLabel, data |-> NoData, classifications |-> {}, readonly |-> FALSE,
          provenance |-> Server, rid |-> NoRelationId]

\* New files (which do not stick yet) are put into every sticky classification.
ApplySticky(new) ==
  LET edges == new \X StickyClassifications
      st    == AddTx(Store, edges, Association, Plain, InverseProperties(Association, Plain))
  IN /\ Association \in Types
     /\ new \cap sticky = {} /\ edges # {}
     /\ \/ /\ new \subseteq files
           /\ FitsBounds(st) /\ FitsLists(st)
           /\ Commit(st)
           /\ ids' = ids \cup new \cup StickyClassifications
        \/ /\ ids' \in {ids \cup (made \cap files) : made \in SUBSET (new \cup StickyClassifications)}
           /\ UNCHANGED attributes
     /\ UNCHANGED <<files, ambiguous, sticky>>

-----------------------------------------------------------------------------
(* What happens to files *)

\* The user makes a classification sticky, or not any more.
ToggleSticky(c) ==
  /\ c \in files \cap Sticking
  /\ sticky' = IF c \in sticky THEN sticky \ {c} ELSE sticky \cup {c}
  /\ UNCHANGED <<files, ids, ambiguous, rel, list>>

\* A file is deleted, and its attributes with it.
DeleteFile(f) ==
  /\ f \in Deleted \cap files /\ f \notin ambiguous
  /\ files' = files \ {f}
  /\ ids' = ids \ {f}
  /\ sticky' = sticky \ {f}
  /\ rel' = [rel EXCEPT ![f] = [T \in Types |-> [g \in Files |-> <<>>]]]
  /\ list' = [list EXCEPT ![f] = [L \in Lists |-> {}]]
  /\ UNCHANGED ambiguous

\* A file manager copies a file with its attributes: two files have the id...
CopyFile(f) ==
  /\ f \in Copied \cap files \cap ids
  /\ ambiguous' = ambiguous \cup {f}
  /\ UNCHANGED <<files, ids, sticky, rel, list>>

\* ...until the server hears of the copy and takes the id from it.
FindCopy(f) ==
  /\ f \in ambiguous
  /\ ambiguous' = ambiguous \ {f}
  /\ UNCHANGED <<files, ids, sticky, rel, list>>

-----------------------------------------------------------------------------

Init ==
  /\ files = Files
  /\ ids = {}
  /\ ambiguous = {}
  /\ sticky = {}
  /\ rel = [f \in Files |-> [T \in Types |-> [g \in Files |-> <<>>]]]
  /\ list = [f \in Files |-> [L \in Lists |-> {}]]

\* The relation ids in requests: FindSet finds nothing for any other one.
RequestIds(s, T, t) == UsedIds(rel[s][T][t]) \cup {NoRelationId}

\* Only RemoveAllRelations has an option for what is stale.
OneModes == RemoveModes \ {"stale"}

Next ==
  \/ \E s, t \in Files, T \in Types :
       \/ \E p \in Inputs, sender \in Senders, own \in OwnLabels : AddRelation(s, t, T, p, sender, own)
       \/ \E rid \in RequestIds(s, T, t), mode \in OneModes : RemoveRelation(s, T, t, rid, mode)
       \/ \E mode \in OneModes : RemoveRelationAllSets(s, T, t, mode)
       \/ \E rid \in RequestIds(s, T, t), p \in Updates,
             to \in Files \cup {NoFile}, mode \in OneModes :
               \E U \in Types \cup (IF to = NoFile THEN {NoType} ELSE {}) :
                 UpdateRelation(s, T, t, rid, p, to, U, mode)
  \/ \E s \in Files, types \in {Types} \cup {{T} : T \in Types}, mode \in RemoveModes :
       RemoveAllRelations(s, types, mode)
  \/ \E new \in SUBSET Files : ApplySticky(new)
  \/ \E f \in Files : ToggleSticky(f) \/ DeleteFile(f) \/ CopyFile(f) \/ FindCopy(f)

Spec == Init /\ [][Next]_vars

-----------------------------------------------------------------------------
(* Properties *)

\* Types: only files that are there have an id, stick or are ambiguous; the
\* attributes hold property sets within the bounds.
TypeOK ==
  /\ files \subseteq Files
  /\ ids \subseteq files
  /\ ambiguous \subseteq ids
  /\ sticky \subseteq files \cap Classifications
  /\ rel \in [Files -> [Types -> [Files -> Seq(PropertySet)]]]
  /\ list \in [Files -> [Lists -> SUBSET Files]]

Related(f, T, g) == rel[f][T][g] # <<>>

\* RelationSets.h 18-20: the sets of one target all have a relation id, each
\* its own, as soon as there are two of them, and none when there is one, so
\* that a request can always name each of them.
RelationIdsIdentify ==
  \A f, g \in Files, T \in Types : LET sets == rel[f][T][g] IN
    /\ Len(sets) = 1 => sets[1].rid = NoRelationId
    /\ Len(sets) > 1 => \A i, j \in DOMAIN sets : /\ sets[i].rid # NoRelationId
                                                  /\ sets[i].rid = sets[j].rid => i = j

\* No list names a file that its file has no relation to: after any request,
\* rolled back or not, no query on SEN:TO or SEN:META finds a relation that
\* is gone.
ListedAreRelated ==
  \A f, g \in Files, L \in Lists :
    g \in list[f][L] => \E T \in Types : ListAttrFor(T) = L /\ Related(f, T, g)

\* RelationWrite.cpp 10-15: the targets of a file are in its list, where
\* queries for the relations that point to them look.
RelatedAreListed ==
  \A f, g \in Files, T \in Types : Related(f, T, g) => g \in list[f][ListAttrFor(T)]

\* RelationSets.h 20: a relation and its opposite direction are kept in step,
\* whatever sequence of requests, failures and deletions made them: as many
\* sets, the same relation id at the same index, and the same properties
\* where only labels could make the directions differ.
Mirrored ==
  \A f, g \in files, T \in Types : ShouldWriteInverse(T, f, g) => rel[f][T][g] = rel[g][T][f]

\* RelationWrite.cpp 414: a read-only relation of a file that is there is
\* changed by no request without the override, on whichever side it is
\* addressed, and however it got there.
ReadOnlyKept ==
  [][\A f \in files', g \in Files, T \in Types : \A i \in DOMAIN rel[f][T][g] :
       rel[f][T][g][i].readonly => SameAs(rel[f][T][g]', rel[f][T][g][i]) # {}]_vars

\* RelationSets.h 53: the first creator of a relation stays, whoever makes it
\* again and from whichever side; one that has none may learn it.  (An update
\* of the properties states the creator anew.)
FirstCreatorStays ==
  [][\A f, g \in Files, T \in Types : \A i \in DOMAIN rel[f][T][g] :
       LET set == rel[f][T][g][i] IN
       set.provenance # NoCreator /\ SameAs(rel[f][T][g]', set) # {} =>
         \E j \in SameAs(rel[f][T][g]', set) : rel[f][T][g][j]'.provenance = set.provenance]_vars
=============================================================================
