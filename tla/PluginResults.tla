--------------------------- MODULE PluginResults ---------------------------
(***************************************************************************)
(* What the server makes of the reply of a plugin that finds relations in  *)
(* a file (RelationHandler::TransformPluginResult, SelfRelationHandler.cpp *)
(* 387-521): a tree of items, with an id for each of them.                 *)
(*                                                                         *)
(* A message of the reply is a record:                                     *)
(*   labelled  the field "label" is there, with a text for each item       *)
(*   uniform   each field has as many values as there are labels           *)
(*   items     of each: "id" (or NoItemId), "fields" (the names of the     *)
(*             flat ones, the label is one) and "nested" (the messages)    *)
(***************************************************************************)
EXTENDS Naturals, SequencesExt

CONSTANTS Messages,        \* the messages of replies, with those they contain
          MappedName(_),   \* the attribute mapping of the plugin
          NoItemId,
          NewItemId,       \* an id that the server generates
          MaxDepth         \* bound: how deep the items of a reply are nested

\* A message holds copies of those within it: there is an end to that.
ASSUME MessagesAssumption ==
  \E depth \in [Messages -> 0 .. MaxDepth] :
    \A m \in Messages : \A i \in DOMAIN m.items : \A n \in ToSet(m.items[i].nested) :
      n \in Messages /\ depth[n] < depth[m]

ASSUME IdsAssumption == NewItemId # NoItemId /\ MaxDepth \in Nat

Failed == [ok |-> FALSE, relations |-> <<>>]

\* Fault: the sub items of one field only.
FirstChildren(item, children) ==
  [fields |-> {MappedName(n) : n \in item.fields},
   id |-> IF item.id = NoItemId THEN NewItemId ELSE item.id,
   children |-> Restrict(children, {k \in DOMAIN children : k = 1 /\ children[k] # <<>>})]

\* An item with its sub items, of which empty ones are left out.
Relation(item, children) ==
  [fields |-> {MappedName(n) : n \in item.fields},
   id |-> IF item.id = NoItemId THEN NewItemId ELSE item.id,
   children |-> RestrictValues(children, LAMBDA c : c # <<>>)]

\* A message without labels has no items, and neither have those within it.
TransformPluginResult[m \in Messages] ==
  IF m.items = <<>> \/ ~m.labelled
  THEN [ok |-> TRUE, relations |-> <<>>]
  ELSE IF ~m.uniform \/ \E x \in ToSet(m.items) : \E n \in ToSet(x.nested) : ~TransformPluginResult[n].ok
  THEN Failed
  ELSE [ok |-> TRUE,
        relations |-> [i \in DOMAIN m.items |->
          Relation(m.items[i], [k \in DOMAIN m.items[i].nested |-> TransformPluginResult[m.items[i].nested[k]].relations])]]

-----------------------------------------------------------------------------
(* The items of a reply and the relations of a result, at whichever depth  *)

ItemsOf(m) == IF m.labelled THEN ToSet(m.items) ELSE {}

SubItems(item) == UNION {ItemsOf(m) : m \in ToSet(item.nested)}

AllItems(m) ==
  LET downTo[d \in 0 .. MaxDepth] ==
        IF d = 0 THEN ItemsOf(m) ELSE downTo[d - 1] \cup UNION {SubItems(x) : x \in downTo[d - 1]}
  IN downTo[MaxDepth]

SubRelations(r) == UNION {ToSet(c) : c \in Range(r.children)}

AllRelations(rs) ==
  LET downTo[d \in 0 .. MaxDepth] ==
        IF d = 0 THEN ToSet(rs) ELSE downTo[d - 1] \cup UNION {SubRelations(x) : x \in downTo[d - 1]}
  IN downTo[MaxDepth]

Stands(r, item) == r.fields = {MappedName(n) : n \in item.fields} /\ item.id \in {r.id, NoItemId}

\* Each item has its relation, below the relations of the items that it is below.
IsComplete(m, rs) ==
  /\ \A x \in AllItems(m) : \E r \in AllRelations(rs) :
       Stands(r, x) /\ \A y \in SubItems(x) : \E c \in SubRelations(r) : Stands(c, y)
  /\ \A r \in AllRelations(rs) : r.id # NoItemId /\ \E x \in AllItems(m) : Stands(r, x)
=============================================================================
