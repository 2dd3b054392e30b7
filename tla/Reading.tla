------------------------------ MODULE Reading ------------------------------
(***************************************************************************)
(* What clients are told of the relations that Relations stores: the types *)
(* and the targets that a file or a selection has                          *)
(* (relations/RelationHandler.cpp), what points to a file and is not       *)
(* stored with it (relations/RelationWrite.cpp), and the graph of all of   *)
(* them (graph/GraphData.cpp).  Nothing here changes a file.               *)
(*                                                                         *)
(* An attribute of a copy that the server did not hear of yet is not read  *)
(* here: the copy only makes the id of its file ambiguous.                 *)
(***************************************************************************)
EXTENDS Relations

CONSTANTS Dynamic,       \* the types whose relations are made at run time
          Fits(_, _),    \* can a relation of the type start or end at the file
          ForwardLabel,  \* the label the config of a type gives the relation
          TypeName       \* the short description of a type

ASSUME DynamicAssumption == Dynamic \subseteq Types

-----------------------------------------------------------------------------
(* The relations of one file *)

HasSets(f, T, g) == rel[f][T][g] # <<>>

\* ReadRelationNames: the types that the file has an attribute for.
StoredTypes(f) == {T \in Types : \E g \in Files : HasSets(f, T, g)}

\* The other files that have the id of f in their list.
Pointing(f, L) == {g \in files \ {f} : f \in ids /\ f \in list[g][L]}

\* Fault: the list of the other kind of relation.
HasReverseOfOther(f, T) == \E L \in Lists \ {ListAttrFor(T)} : Pointing(f, L) # {}

\* HasReverseRelations: a file lists f, for whichever relation of that list.
HasReverse(f, T) == Pointing(f, ListAttrFor(T)) # {}

AllRelations(f) ==
  {T \in Types : /\ f \in files
                 /\ \/ T \in StoredTypes(f)
                    \/ T \notin Bidirectional \cup Dynamic /\ HasReverse(f, T)}

\* ResolveRelationTargets: one target whose id two files have fails the request.
Resolvable(f, T) == \A g \in Files : HasSets(f, T, g) => g \notin ambiguous

ReadRelations(f, T) == IF f \in files THEN rel[f][T] ELSE [g \in Files |-> <<>>]

\* Fault: what points to the file is not looked up.
NoReverseRelations(f, T) == [g \in Files |-> <<>>]

\* ResolveReverseRelations: the sets that other files store for f, with the
\* label of the inverse.
ReverseRelations(f, T) ==
  [g \in Files |->
     IF g \notin Pointing(f, ListAttrFor(T)) \cap ids
     THEN <<>>
     ELSE [i \in DOMAIN rel[g][T][f] |->
             IF InverseLabel[T] = NoLabel
             THEN rel[g][T][f][i]
             ELSE [rel[g][T][f][i] EXCEPT !.label = InverseLabel[T]]]]

Answered(f, T) == f \in files /\ Resolvable(f, T)

\* GetRelationsOfType: what is stored, and for a type that is not stored with
\* its target what points to the file.
RelationsOfType(f, T) ==
  [g \in Files |->
     ReadRelations(f, T)[g] \o IF T \in Bidirectional THEN <<>> ELSE ReverseRelations(f, T)[g]]

\* The targets marked as missing.
MissingTargets(f, T) == {g \in Files : HasSets(f, T, g) /\ ~Resolves(g)}

-----------------------------------------------------------------------------
(* A selection: a sequence of files *)

\* The types that all of the files have, and that fit all of them.
TypesOfSelection(sources) ==
  {T \in Types : \A i \in DOMAIN sources : T \in AllRelations(sources[i]) /\ Fits(T, sources[i])}

\* The targets of all files that answer; the relations of the first that has one stay.
RelationsOfSelection(sources, T) ==
  [g \in Files |->
     LET having == {i \in DOMAIN sources : /\ Answered(sources[i], T)
                                           /\ RelationsOfType(sources[i], T)[g] # <<>>}
     IN IF having = {} THEN <<>> ELSE RelationsOfType(sources[First(having)], T)[g]]

\* The handler of both requests: one file is no selection.
TypesFor(sources) == IF Len(sources) > 1 THEN TypesOfSelection(sources) ELSE AllRelations(sources[1])

RelationsFor(sources, T) ==
  IF Len(sources) > 1 THEN RelationsOfSelection(sources, T) ELSE RelationsOfType(sources[1], T)

AnsweredFor(sources, T) == \E i \in DOMAIN sources : Answered(sources[i], T)

-----------------------------------------------------------------------------
(* The graph *)

\* The labels of the first relation of f to g: of the type whose attribute
\* comes first, whichever that is.
OwnRelations(f, g) == {[type |-> T, label |-> rel[f][T][g][1].label] : T \in {U \in Types : HasSets(f, U, g)}}

\* The edges as the files list them, between and from the nodes.
Edges(nodes) == {e \in nodes \X Files \X Lists : e[2] \in list[e[1]][e[3]]}

\* Fault: the label of the opposite edge is not looked at.
LabelAlone(type, label, other, first) ==
  IF label # NoLabel THEN label ELSE IF ForwardLabel[type] # NoLabel THEN ForwardLabel[type] ELSE TypeName[type]

\* The label of an edge whose relation has the label "label"; "other" is the
\* label of the opposite edge so far, and first says which of the two is forward.
SettledLabel(type, label, other, first) ==
  LET forward == ForwardLabel[type]
      inverse == IF InverseLabel[type] = NoLabel THEN forward ELSE InverseLabel[type]
  IN CASE label # NoLabel   -> label
       [] forward = NoLabel -> TypeName[type]
       [] OTHER             -> IF other = forward \/ (other = NoLabel /\ ~first) THEN inverse ELSE forward

\* The labels of the edges between two files, a being the relation of the file
\* with the smaller id, whose edge is settled first.
LabelsOfPair(a, b) ==
  LET one == SettledLabel(a.type, a.label, b.label, TRUE)
  IN <<one, SettledLabel(b.type, b.label, one, FALSE)>>

-----------------------------------------------------------------------------
(* Properties *)

\* RelationHandler.cpp 168-170: a relation of a type that is not stored with
\* its target is shown at the target, too, as long as both files are there,
\* whichever requests, failures and copies came between: its file has an id
\* and lists the target.
PointedAtIsShown ==
  \A f, g \in files, T \in Types \ Bidirectional :
    HasSets(f, T, g) /\ Answered(g, T) => RelationsOfType(g, T)[f] # <<>>

\* RelationHandler.cpp 289-293: each type that the menu of a selection offers
\* shows relations when it is opened, for every one of the files; that of one
\* file, too.
OfferedTypesShow ==
  \A sources \in {<<f>> : f \in files} \cup (files \X files) : \A T \in TypesFor(sources) \ Dynamic :
    AnsweredFor(sources, T) =>
      \A i \in DOMAIN sources : Answered(sources[i], T) =>
        \E g \in Files : /\ RelationsOfType(sources[i], T)[g] # <<>>
                         /\ RelationsFor(sources, T)[g] # <<>>

\* GraphData.cpp 219-221: "cites" one way and "cited by" the other: two edges
\* of the graph that are the two directions of a relation never say the same,
\* unless both have labels of their own, whichever file has the smaller id.
DirectionsDiffer ==
  \A e, o \in Edges(ids) : e[1] = o[2] /\ e[2] = o[1] /\ e[3] = o[3] /\ e[1] # e[2] =>
    \A a \in OwnRelations(e[1], e[2]), b \in OwnRelations(o[1], o[2]) :
      /\ a.type = b.type
      /\ a.label = NoLabel \/ b.label = NoLabel
      /\ ForwardLabel[a.type] # NoLabel /\ InverseLabel[a.type] \notin {NoLabel, ForwardLabel[a.type]}
      => LabelsOfPair(a, b)[1] # LabelsOfPair(a, b)[2]
=============================================================================
