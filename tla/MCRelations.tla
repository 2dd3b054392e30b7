---------------------------- MODULE MCRelations ----------------------------
(* Instances of Relations for TLC. *)
EXTENDS Reading, TLC

CONSTANTS f1, f2, c1, c2, c3, refers, cites, labelled, notes, app, refersTo, referredBy

\* The ids (1 to n) that are not used, in their order.
NewIdTable == [used \in SUBSET RelIds |-> SelectSeq([i \in RelIds |-> i], LAMBDA i : i \notin used)]
LeastNewId(used, k) == NewIdTable[used][k]

Set(label, data, readonly) ==
  [label |-> label, data |-> data, classifications |-> {}, readonly |-> readonly,
   provenance |-> NoCreator, rid |-> NoRelationId]

NoLabels == {NoLabel}
NoInverseLabel == [T \in Types |-> NoLabel]
WithInverseLabel == [T \in Types |-> IF T = refers THEN referredBy ELSE NoLabel]

OneInput == {Set(NoLabel, NoData, FALSE)}

\* A set that a user makes, and a read-only one.
FewInputs == OneInput \cup {Set(NoLabel, notes, TRUE)}
UpdateToReadOnly == {NoProperties, Set(NoLabel, notes, TRUE)}

\* No type names the types of files that it fits.
AnyFits(T, f) == TRUE
RefersLabel == [T \in Types |-> IF T = refers THEN refersTo ELSE NoLabel]
NameOfType == [T \in Types |-> T]

ClassificationSymmetry == Permutations(Classifications)
=============================================================================
