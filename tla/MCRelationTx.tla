---------------------------- MODULE MCRelationTx ----------------------------
(* An instance of RelationTx for TLC. *)
EXTENDS RelationTx

CONSTANTS f1, f2, refers, notes, app

\* The ids (1 to n) that are not used, in their order.
NewIdTable == [used \in SUBSET RelIds |-> SelectSeq([i \in RelIds |-> i], LAMBDA i : i \notin used)]
LeastNewId(used, k) == NewIdTable[used][k]

Set(data, readonly) ==
  [label |-> NoLabel, data |-> data, classifications |-> {}, readonly |-> readonly,
   provenance |-> NoCreator, rid |-> NoRelationId]

OneInput == {Set(NoData, FALSE)}
OneUpdate == {NoProperties, Set(notes, FALSE)}
NoLabels == {NoLabel}
NoInverseLabel == [T \in Types |-> NoLabel]
AllAttrs == RelAttrs \cup ListAttrs

\* Of the first file the relations cannot be put back, and the list cannot be read.
RelationsOfFirst == {<<"SEN:REL", f1, refers>>}
ListOfFirst == {<<"list", f1, "SEN:TO">>}
=============================================================================
