---------------------------- MODULE RelationSets ----------------------------
(***************************************************************************)
(* The relations of one type from one file to one target: the sequence of  *)
(* property sets that the attribute SEN:REL:<type> of the source keeps for *)
(* the SEN:ID of the target (relations/RelationSets.cpp).                  *)
(*                                                                         *)
(* A property set is a record:                                             *)
(*   label            the label shown for this direction                   *)
(*   data             every other property that tells two sets apart       *)
(*   classifications  the classifications the relation lists               *)
(*   readonly         SEN:REL:readonly                                     *)
(*   provenance       who made the relation, or NoCreator                  *)
(*   rid              the relation id, or NoRelationId                     *)
(* A relation id only ever tells apart the sets of one pair of files, so   *)
(* it is enough that a new one differs from those that the pair has.       *)
(***************************************************************************)
EXTENDS Naturals, FiniteSets, SequencesExt

CONSTANTS RelIds,        \* the relation ids
          NewId(_, _),   \* id::New(): the k-th new id where the ids used are in use
          NoRelationId,  \* a set without relation id
          NoLabel,       \* a set without label
          NoCreator      \* a set without provenance

ASSUME RelIdsAssumption == NoRelationId \notin RelIds

-----------------------------------------------------------------------------
(* Stored sets *)

WithoutId(set) == [set EXCEPT !.rid = NoRelationId]

\* What makes two sets the same relation: neither the id nor the creator.
Identity(set) == [set EXCEPT !.rid = NoRelationId, !.provenance = NoCreator]

First(indices) == CHOOSE i \in indices : \A j \in indices : i <= j

\* The sets that are the same relation as p.
SameAs(sets, p) == {i \in DOMAIN sets : Identity(sets[i]) = Identity(p)}

\* AddSet returns B_NAME_IN_USE.
InUse(sets, p) == SameAs(sets, p) # {}

UsedIds(sets) == {sets[i].rid : i \in DOMAIN sets} \ {NoRelationId}

-----------------------------------------------------------------------------
(* AddSet: a second set gives every set of the target a relation id, from  *)
(* new: new[1] to the added one, new[i + 1] to the i-th.                   *)

AddSet(sets, p, new) ==
  IF sets = <<>>
  THEN <<WithoutId(p)>>
  ELSE Append([i \in DOMAIN sets |->
                 IF sets[i].rid = NoRelationId THEN [sets[i] EXCEPT !.rid = new[i + 1]] ELSE sets[i]],
              [p EXCEPT !.rid = new[1]])

\* Fault: a set that has a creator gets another one.
FillableAgain(sets, p) == SameAs(sets, p)

\* The set that FillProvenance gives its creator to, if there is one.
Fillable(sets, p) == {i \in SameAs(sets, p) : sets[i].provenance = NoCreator}

CanFill(sets, p) == p.provenance # NoCreator /\ Fillable(sets, p) # {}

FillProvenance(sets, p) ==
  IF CanFill(sets, p)
  THEN [sets EXCEPT ![First(Fillable(sets, p))].provenance = p.provenance]
  ELSE sets

-----------------------------------------------------------------------------
(* FindSet, ReplaceSet, RemoveSet, SetRelationId *)

\* The sets that a request names: by the id, or without id the only one.
FindSet(sets, rid) ==
  IF rid = NoRelationId
  THEN {i \in DOMAIN sets : Len(sets) = 1}
  ELSE {i \in DOMAIN sets : sets[i].rid = rid}

ReplaceSet(sets, i, p) == [sets EXCEPT ![i] = [p EXCEPT !.rid = sets[i].rid]]

\* Fault: the set that is left keeps its id.
RemoveSetKeepingId(sets, i) == RemoveAt(sets, i)

RemoveSet(sets, i) ==
  IF Len(sets) = 2 THEN <<WithoutId(sets[3 - i])>> ELSE RemoveAt(sets, i)

\* SetRelationId for every index: to gets the ids of from.
CopyIds(from, to) == [i \in DOMAIN to |-> [to[i] EXCEPT !.rid = from[i].rid]]
=============================================================================
