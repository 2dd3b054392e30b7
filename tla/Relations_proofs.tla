-------------------------- MODULE Relations_proofs --------------------------
(***************************************************************************)
(* Proofs about Relations and Reading, for any files, types, clients and   *)
(* bounds: what the operators of RelationSets keep, the types, the         *)
(* relation ids of each target, that the lists name nothing that has no    *)
(* relation and, for a type that shares its list with no other, everything *)
(* that has one, and what clients are told because of that.                *)
(***************************************************************************)
EXTENDS Reading, SequenceTheorems, FiniteSetTheorems, TLAPS

-----------------------------------------------------------------------------
(* The property sets of one pair of files *)

\* RelationIdsIdentify for the sets of one target.
Identified(sets) ==
  /\ Len(sets) = 1 => sets[1].rid = NoRelationId
  /\ Len(sets) > 1 => \A i, j \in DOMAIN sets : /\ sets[i].rid # NoRelationId
                                                /\ sets[i].rid = sets[j].rid => i = j

\* What is stored for one target.
WellKept(sets) == sets \in Seq(PropertySet) /\ Len(sets) <= MaxSets /\ Identified(sets)

\* Ids for every set of a target and one more: new and different.
NewFor(new, sets) ==
  /\ \A k \in 1 .. Len(sets) + 1 : new[k] \in RelIds \ UsedIds(sets)
  /\ \A j, k \in 1 .. Len(sets) + 1 : new[j] = new[k] => j = k

\* The same sets, but for what no relation id depends on.
SameIds(from, to) ==
  /\ to \in Seq(PropertySet)
  /\ Len(to) = Len(from)
  /\ \A i \in 1 .. Len(from) : to[i].rid = from[i].rid

LEMMA FirstOfSet ==
  ASSUME NEW S \in SUBSET Nat, S # {}
  PROVE  First(S) \in S /\ \A j \in S : First(S) <= j
<1> DEFINE Less == OpToRel(<, Nat)
<1>1. IsWellFoundedOn(Less, Nat)
  BY NatLessThanWellFounded
<1> HIDE DEF Less
<1>2. S \subseteq Nat
  OBVIOUS
<1>3. \E i \in S : \A j \in S : ~(<<j, i>> \in Less)
  BY <1>1, <1>2, WFMin, Zenon
<1>4. PICK i \in S : \A j \in S : ~(<<j, i>> \in Less)
  BY <1>3
<1>5. ASSUME NEW j \in S
      PROVE  i <= j
  <2>1. <<j, i>> \in Nat \X Nat /\ j < i => <<j, i>> \in Less
    BY DEF OpToRel, Less
  <2> QED
    BY <1>4, <2>1
<1> QED
  BY <1>5 DEF First

LEMMA WithoutIdType ==
  ASSUME NEW set \in PropertySet
  PROVE  WithoutId(set) \in PropertySet /\ WithoutId(set).rid = NoRelationId
BY DEF WithoutId, PropertySet

LEMMA NoSets == WellKept(<<>>)
BY BoundsAssumption DEF WellKept, Identified

LEMMA OneSet ==
  ASSUME NEW set \in PropertySet, set.rid = NoRelationId
  PROVE  /\ <<set>> \in Seq(PropertySet) /\ <<set>> # <<>> /\ Len(<<set>>) = 1
         /\ Identified(<<set>>)
BY DEF Identified

\* Sets with the same ids are as good.
LEMMA SameIdsWellKept ==
  ASSUME NEW from, NEW to, WellKept(from), SameIds(from, to)
  PROVE  WellKept(to) /\ (to = <<>> <=> from = <<>>)
<1>1. DOMAIN from = 1 .. Len(from) /\ DOMAIN to = 1 .. Len(from) /\ Len(from) \in Nat
  BY LenProperties DEF WellKept, SameIds
<1>2. Identified(to)
  BY <1>1 DEF WellKept, SameIds, Identified
<1>3. to = <<>> <=> from = <<>>
  BY <1>1, EmptySeq DEF WellKept, SameIds
<1> QED
  BY <1>2, <1>3 DEF WellKept, SameIds

LEMMA FillProvenanceWellKept ==
  ASSUME NEW sets, NEW p \in PropertySet, WellKept(sets)
  PROVE  WellKept(FillProvenance(sets, p)) /\ (FillProvenance(sets, p) = <<>> <=> sets = <<>>)
<1>1. CASE CanFill(sets, p)
  <2> DEFINE i == First(Fillable(sets, p))
             filled == [sets[i] EXCEPT !.provenance = p.provenance]
  <2>1. DOMAIN sets = 1 .. Len(sets) /\ Len(sets) \in Nat
    BY LenProperties DEF WellKept
  <2>2. i \in 1 .. Len(sets)
    <3>1. Fillable(sets, p) \in SUBSET Nat /\ Fillable(sets, p) \subseteq 1 .. Len(sets)
      BY <2>1 DEF Fillable, SameAs
    <3>2. Fillable(sets, p) # {}
      BY <1>1 DEF CanFill
    <3> QED
      BY <3>1, <3>2, FirstOfSet
  <2>3. filled \in PropertySet /\ filled.rid = sets[i].rid
    <3>1. sets[i] \in PropertySet
      BY <2>2, ElementOfSeq DEF WellKept
    <3> HIDE DEF i
    <3> QED
      BY <3>1 DEF PropertySet
  <2>4. FillProvenance(sets, p) = [sets EXCEPT ![i] = filled]
    BY <1>1 DEF FillProvenance
  <2>5. SameIds(sets, FillProvenance(sets, p))
    BY <2>2, <2>3, <2>4, ExceptSeq DEF SameIds, WellKept
  <2> QED
    BY <2>5, SameIdsWellKept
<1>2. CASE ~CanFill(sets, p)
  BY <1>2 DEF FillProvenance
<1> QED
  BY <1>1, <1>2

LEMMA ReplaceSetWellKept ==
  ASSUME NEW sets, NEW i \in DOMAIN sets, NEW p \in PropertySet, WellKept(sets)
  PROVE  /\ SameIds(sets, ReplaceSet(sets, i, p))
         /\ WellKept(ReplaceSet(sets, i, p))
         /\ ReplaceSet(sets, i, p) # <<>>
<1> DEFINE new == [p EXCEPT !.rid = sets[i].rid]
<1>1. i \in 1 .. Len(sets) /\ sets \in Seq(PropertySet) /\ Len(sets) \in Nat
  BY LenProperties DEF WellKept
<1>2. new \in PropertySet /\ new.rid = sets[i].rid
  <2>1. sets[i] \in PropertySet
    BY <1>1, ElementOfSeq
  <2> QED
    BY <2>1 DEF PropertySet
<1>3. SameIds(sets, ReplaceSet(sets, i, p))
  BY <1>1, <1>2, ExceptSeq DEF SameIds, ReplaceSet
<1>4. sets # <<>>
  BY <1>1, EmptySeq
<1> QED
  BY <1>3, <1>4, SameIdsWellKept

LEMMA CopyIdsWellKept ==
  ASSUME NEW from, NEW to \in Seq(PropertySet), WellKept(from), Len(to) = Len(from)
  PROVE  /\ WellKept(CopyIds(from, to)) /\ Len(CopyIds(from, to)) = Len(from)
         /\ CopyIds(from, to) = <<>> <=> from = <<>>
<1>1. Len(from) \in Nat /\ from \in Seq(PropertySet) /\ DOMAIN to = 1 .. Len(from)
  BY LenProperties DEF WellKept
<1>2. \A i \in 1 .. Len(from) : from[i] \in PropertySet /\ to[i] \in PropertySet
  BY <1>1, ElementOfSeq
<1>3. \A i \in 1 .. Len(from) : [to[i] EXCEPT !.rid = from[i].rid] \in PropertySet
  BY <1>2 DEF PropertySet
<1>4. CopyIds(from, to) \in [1 .. Len(from) -> PropertySet]
  BY <1>1, <1>3 DEF CopyIds
<1>5. CopyIds(from, to) \in Seq(PropertySet) /\ Len(CopyIds(from, to)) = Len(from)
  BY <1>1, <1>4, SeqDef, LenProperties
<1>6. \A i \in 1 .. Len(from) : CopyIds(from, to)[i].rid = from[i].rid
  BY <1>1, <1>2 DEF CopyIds, PropertySet
<1> QED
  BY <1>5, <1>6, SameIdsWellKept DEF SameIds

\* A set is added, and all sets have ids, each its own.
LEMMA AddSetIdentified ==
  ASSUME NEW sets, NEW p \in PropertySet, NEW new, WellKept(sets), NewFor(new, sets)
  PROVE  /\ AddSet(sets, p, new) \in Seq(PropertySet)
         /\ AddSet(sets, p, new) # <<>>
         /\ Len(AddSet(sets, p, new)) = Len(sets) + 1
         /\ Identified(AddSet(sets, p, new))
<1>0. sets \in Seq(PropertySet) /\ Len(sets) \in Nat /\ DOMAIN sets = 1 .. Len(sets)
  BY LenProperties DEF WellKept
<1>1. CASE sets = <<>>
  <2>1. AddSet(sets, p, new) = <<WithoutId(p)>>
    BY <1>1 DEF AddSet
  <2>2. Len(sets) = 0
    BY <1>1
  <2> QED
    BY <2>1, <2>2, OneSet, WithoutIdType
<1>2. CASE sets # <<>>
  <2> DEFINE Named(i) == IF sets[i].rid = NoRelationId THEN [sets[i] EXCEPT !.rid = new[i + 1]] ELSE sets[i]
             named == [i \in DOMAIN sets |-> Named(i)]
             last  == [p EXCEPT !.rid = new[1]]
             n     == Len(sets)
  <2>1. AddSet(sets, p, new) = Append(named, last)
    BY <1>2 DEF AddSet
  <2>2. n \in Nat /\ n >= 1
    BY <1>0, <1>2, EmptySeq
  <2>3. \A k \in 1 .. n + 1 : new[k] \in RelIds /\ new[k] # NoRelationId /\ new[k] \notin UsedIds(sets)
    BY RelIdsAssumption DEF NewFor
  <2>4. last \in PropertySet /\ last.rid = new[1]
    BY <2>2, <2>3 DEF PropertySet
  <2>5. ASSUME NEW i \in 1 .. n
        PROVE  /\ Named(i) \in PropertySet
               /\ sets[i].rid = NoRelationId => Named(i).rid = new[i + 1]
               /\ sets[i].rid # NoRelationId => Named(i).rid = sets[i].rid /\ sets[i].rid \in UsedIds(sets)
    <3>1. sets[i] \in PropertySet
      BY <1>0, ElementOfSeq
    <3>2. new[i + 1] \in RelIds
      BY <2>2, <2>3
    <3>3. CASE sets[i].rid = NoRelationId
      BY <3>1, <3>2, <3>3 DEF PropertySet
    <3>4. CASE sets[i].rid # NoRelationId
      BY <1>0, <3>1, <3>4 DEF UsedIds
    <3> QED
      BY <3>3, <3>4
  <2> HIDE DEF Named, last
  <2>6. named \in [1 .. n -> PropertySet]
    BY <1>0, <2>5
  <2>7. named \in Seq(PropertySet) /\ Len(named) = n
    BY <2>2, <2>6, SeqDef, LenProperties
  <2>8. \A i \in 1 .. n : named[i] = Named(i)
    BY <1>0
  <2> DEFINE all == Append(named, last)
  <2> HIDE DEF named
  <2>9. /\ all \in Seq(PropertySet) /\ all # <<>> /\ Len(all) = n + 1
        /\ \A i \in 1 .. n : all[i] = Named(i)
        /\ all[n + 1] = last
    BY <2>4, <2>7, <2>8, AppendProperties
  <2>10. DOMAIN all = 1 .. n + 1
    BY <2>9, LenProperties
  <2> HIDE DEF all
  <2>11. \A i \in 1 .. n + 1 : all[i].rid # NoRelationId
    BY <2>2, <2>3, <2>4, <2>5, <2>9
  <2>12. ASSUME NEW i \in 1 .. n + 1, NEW j \in 1 .. n + 1, all[i].rid = all[j].rid
         PROVE  i = j
    <3>1. \A k \in 1 .. n : sets[k].rid = NoRelationId => n = 1
      BY <1>0, <2>2 DEF WellKept, Identified
    <3>2. \A k, l \in 1 .. n + 1 : new[k] = new[l] => k = l
      BY DEF NewFor
    <3>3. CASE n = 1
      <4>1. sets[1].rid = NoRelationId
        BY <3>3 DEF WellKept, Identified
      <4>2. all[1].rid = new[2] /\ all[2].rid = new[1]
        BY <3>3, <4>1, <2>4, <2>5, <2>9
      <4>3. i \in {1, 2} /\ j \in {1, 2} /\ new[1] # new[2]
        BY <3>2, <3>3
      <4> QED
        BY <4>2, <4>3, <2>12
    <3>4. CASE n # 1
      <4>1. \A k \in 1 .. n : all[k].rid = sets[k].rid /\ all[k].rid \in UsedIds(sets)
        BY <2>5, <2>9, <3>1, <3>4
      <4>2. all[n + 1].rid \notin UsedIds(sets)
        BY <2>2, <2>3, <2>4, <2>9
      <4>3. \A k, l \in 1 .. n : sets[k].rid = sets[l].rid => k = l
        BY <1>0, <2>2, <3>4 DEF WellKept, Identified
      <4> QED
        BY <2>2, <2>12, <4>1, <4>2, <4>3
    <3> QED
      BY <3>3, <3>4
  <2>13. Identified(all)
    BY <2>2, <2>9, <2>10, <2>11, <2>12 DEF Identified
  <2> QED
    BY <2>1, <2>9, <2>13 DEF all
<1> QED
  BY <1>1, <1>2

\* The sets after the one that is removed move up.
LEMMA RemoveSetLeft ==
  ASSUME NEW sets \in Seq(PropertySet), NEW i \in 1 .. Len(sets), Len(sets) # 2
  PROVE  /\ RemoveSet(sets, i) \in Seq(PropertySet)
         /\ Len(RemoveSet(sets, i)) = Len(sets) - 1
         /\ \A j \in 1 .. Len(sets) - 1 : RemoveSet(sets, i)[j] = sets[IF j < i THEN j ELSE j + 1]
<1> DEFINE n == Len(sets)
           before == SubSeq(sets, 1, i - 1)
           after  == SubSeq(sets, i + 1, n)
           left   == before \o after
<1>0. n \in Nat /\ i \in 1 .. n
  BY LenProperties
<1>1. \A j \in 1 .. n : sets[j] \in PropertySet
  BY ElementOfSeq
<1>2. RemoveSet(sets, i) = left
  BY DEF RemoveSet, RemoveAt
<1>3. /\ before \in Seq(PropertySet) /\ Len(before) = i - 1
      /\ \A j \in 1 .. i - 1 : before[j] = sets[j]
  BY <1>0, <1>1, SubSeqProperties
<1>4. /\ after \in Seq(PropertySet) /\ Len(after) = n - i
      /\ \A j \in 1 .. n - i : after[j] = sets[i + j]
  <2>1. \A j \in i + 1 .. n : sets[j] \in PropertySet
    BY <1>0, <1>1
  <2>2. i + 1 \in Int /\ n \in Int
    BY <1>0
  <2>3. /\ after \in Seq(PropertySet)
        /\ Len(after) = IF i + 1 <= n THEN n - (i + 1) + 1 ELSE 0
        /\ \A j \in 1 .. n - (i + 1) + 1 : after[j] = sets[i + 1 + j - 1]
    BY <2>1, <2>2, SubSeqProperties
  <2> HIDE DEF after
  <2>4. n \in Int /\ i \in Int /\ 1 <= i /\ i <= n
    BY <1>0
  <2> HIDE DEF n
  <2>5. Len(after) = n - i
    BY <2>3, <2>4
  <2>6. ASSUME NEW j \in 1 .. n - i
        PROVE  after[j] = sets[i + j]
    <3>1. j \in 1 .. n - (i + 1) + 1 /\ i + 1 + j - 1 = i + j
      BY <2>4
    <3> QED
      BY <2>3, <3>1
  <2> QED
    BY <2>3, <2>5, <2>6
<1> HIDE DEF before, after
<1>5. /\ left \in Seq(PropertySet) /\ Len(left) = Len(before) + Len(after)
      /\ \A j \in 1 .. Len(before) + Len(after) :
           left[j] = IF j <= Len(before) THEN before[j] ELSE after[j - Len(before)]
  BY <1>3, <1>4, ConcatProperties
<1> HIDE DEF left
<1>6. n \in Int /\ i \in Int /\ 1 <= i /\ i <= n
  BY <1>0
<1>7. n = Len(sets)
  OBVIOUS
<1> HIDE DEF n
<1>8. Len(left) = n - 1
  BY <1>3, <1>4, <1>5, <1>6
<1>9. ASSUME NEW j \in 1 .. n - 1, j < i
      PROVE  left[j] = sets[j]
  BY <1>3, <1>4, <1>5, <1>6, <1>9
<1>10. ASSUME NEW j \in 1 .. n - 1, ~(j < i)
       PROVE  left[j] = sets[j + 1]
  <2>1. left[j] = after[j - (i - 1)]
    BY <1>3, <1>4, <1>5, <1>6, <1>10
  <2>2. j - (i - 1) \in 1 .. n - i /\ i + (j - (i - 1)) = j + 1
    BY <1>6, <1>10
  <2> QED
    BY <1>4, <2>1, <2>2
<1> QED
  BY <1>2, <1>5, <1>7, <1>8, <1>9, <1>10

\* A set is removed, and the last one left has no id.
LEMMA RemoveSetWellKept ==
  ASSUME NEW sets, NEW i \in DOMAIN sets, WellKept(sets)
  PROVE  WellKept(RemoveSet(sets, i))
<1> DEFINE n == Len(sets)
<1>0. sets \in Seq(PropertySet) /\ n \in Nat /\ DOMAIN sets = 1 .. n /\ n <= MaxSets /\ i \in 1 .. n
  BY LenProperties DEF WellKept
<1>1. \A j \in 1 .. n : sets[j] \in PropertySet
  BY <1>0, ElementOfSeq
<1>2. CASE n = 2
  <2>1. sets[3 - i] \in PropertySet
    BY <1>0, <1>1, <1>2
  <2> QED
    BY <1>0, <1>2, <2>1, WithoutIdType, OneSet, BoundsAssumption DEF RemoveSet, WellKept
<1>3. CASE n # 2
  <2> DEFINE left == RemoveSet(sets, i)
  <2>4. left \in Seq(PropertySet)
    BY <1>0, <1>3, RemoveSetLeft
  <2>5. /\ Len(left) = n - 1
        /\ \A j \in 1 .. n - 1 : left[j] = sets[IF j < i THEN j ELSE j + 1]
    BY <1>0, <1>3, RemoveSetLeft
  <2> HIDE DEF left
  <2>6. DOMAIN left = 1 .. n - 1
    BY <2>4, <2>5, LenProperties
  <2>7. ASSUME n > 2
        PROVE  \A j, k \in 1 .. n - 1 : left[j].rid # NoRelationId /\ (left[j].rid = left[k].rid => j = k)
    <3>1. n \in Int /\ i \in Int /\ 1 <= i /\ i <= n /\ n > 2
      BY <1>0, <2>7
    <3>2. \A j, k \in 1 .. n : sets[j].rid # NoRelationId /\ (sets[j].rid = sets[k].rid => j = k)
      BY <1>0, <2>7 DEF WellKept, Identified
    <3> HIDE DEF n
    <3> DEFINE Old(j) == IF j < i THEN j ELSE j + 1
    <3>3. ASSUME NEW j \in 1 .. n - 1
          PROVE  Old(j) \in 1 .. n /\ left[j] = sets[Old(j)]
      BY <2>5, <3>1
    <3>4. \A j, k \in 1 .. n - 1 : Old(j) = Old(k) => j = k
      BY <3>1
    <3> HIDE DEF Old
    <3> QED
      BY <3>2, <3>3, <3>4
  <2>8. Identified(left)
    BY <1>0, <1>3, <2>5, <2>6, <2>7 DEF Identified
  <2> QED
    BY <1>0, <2>4, <2>5, <2>8, BoundsAssumption DEF WellKept, left
<1> QED
  BY <1>2, <1>3

-----------------------------------------------------------------------------
(* The attributes of all files *)

\* The attributes of all files, before or in the middle of a request.
StoreOK(st) ==
  /\ st.rel \in [Files -> [Types -> [Files -> Seq(PropertySet)]]]
  /\ st.list \in [Files -> [Lists -> SUBSET Files]]
  /\ \A f, g \in Files, T \in Types : WellKept(st.rel[f][T][g])
  /\ \A f, g \in Files, L \in Lists :
       g \in st.list[f][L] => \E T \in Types : ListAttrFor(T) = L /\ st.rel[f][T][g] # <<>>

FilesOK ==
  /\ files \subseteq Files
  /\ ids \subseteq files
  /\ ambiguous \subseteq ids
  /\ sticky \subseteq files \cap Classifications

\* The inductive invariant.
RelationsInv == FilesOK /\ StoreOK(Store)

-----------------------------------------------------------------------------
(* New relation ids *)

LEMMA UsedIdsFinite ==
  ASSUME NEW sets, WellKept(sets)
  PROVE  /\ UsedIds(sets) \in SUBSET RelIds
         /\ IsFiniteSet(UsedIds(sets))
         /\ Cardinality(UsedIds(sets)) \in Nat
         /\ Cardinality(UsedIds(sets)) <= MaxSets
<1> DEFINE n == Len(sets)
           all == {sets[i].rid : i \in 1 .. n}
           rids == [i \in 1 .. n |-> sets[i].rid]
<1>1. n \in Nat /\ n <= MaxSets /\ DOMAIN sets = 1 .. n /\ sets \in Seq(PropertySet)
  BY LenProperties DEF WellKept
<1>2. \A i \in 1 .. n : sets[i].rid \in RelIds \cup {NoRelationId}
  <2>1. \A i \in 1 .. n : sets[i] \in PropertySet
    BY <1>1, ElementOfSeq
  <2> QED
    BY <2>1 DEF PropertySet
<1>3. rids \in Surjection(1 .. n, all)
  BY DEF Surjection
<1>4. IsFiniteSet(1 .. n) /\ Cardinality(1 .. n) = n
  <2>1. 1 \in Int /\ n \in Int /\ (1 > n => n = 0)
    BY <1>1
  <2>2. IsFiniteSet(1 .. n) /\ Cardinality(1 .. n) = IF 1 > n THEN 0 ELSE n - 1 + 1
    BY <2>1, FS_Interval
  <2> QED
    BY <1>1, <2>2
<1>5. IsFiniteSet(all) /\ Cardinality(all) <= n
  BY <1>3, <1>4, FS_Surjection
<1>6. UsedIds(sets) \in SUBSET all
  BY <1>1 DEF UsedIds
<1>7. IsFiniteSet(UsedIds(sets)) /\ Cardinality(UsedIds(sets)) <= Cardinality(all)
  BY <1>5, <1>6, FS_Subset
<1>8. Cardinality(UsedIds(sets)) \in Nat /\ Cardinality(all) \in Nat
  BY <1>5, <1>7, FS_CardinalityType
<1>9. UsedIds(sets) \subseteq RelIds
  BY <1>1, <1>2 DEF UsedIds
<1> QED
  BY <1>1, <1>5, <1>7, <1>8, <1>9, BoundsAssumption

\* The ids for the source are new for its sets, those for the target for its.
LEMMA NewIdsAreNew ==
  ASSUME NEW r, NEW T, NEW s, NEW t, WellKept(r[s][T][t]), WellKept(r[t][T][s])
  PROVE  /\ NewFor(ForwardIds(r, T, s, t), r[s][T][t])
         /\ NewFor(InverseIds(r, T, s, t), r[t][T][s])
<1> DEFINE a == UsedIds(r[s][T][t])
           b == UsedIds(r[t][T][s])
           used == a \cup b
           M == MaxSets + 1
<1>1. /\ a \in SUBSET RelIds /\ IsFiniteSet(a) /\ Cardinality(a) \in Nat /\ Cardinality(a) <= MaxSets
      /\ b \in SUBSET RelIds /\ IsFiniteSet(b) /\ Cardinality(b) \in Nat /\ Cardinality(b) <= MaxSets
  BY UsedIdsFinite
<1> HIDE DEF a, b
<1>2. used \in SUBSET RelIds /\ Cardinality(used) <= 2 * MaxSets
  <2>1. Cardinality(used) = Cardinality(a) + Cardinality(b) - Cardinality(a \cap b)
    BY <1>1, FS_Union
  <2>2. a \cap b \in SUBSET a
    OBVIOUS
  <2>3. IsFiniteSet(a \cap b)
    BY <1>1, <2>2, FS_Subset
  <2>4. Cardinality(a \cap b) \in Nat
    BY <2>3, FS_CardinalityType
  <2> QED
    BY <1>1, <2>1, <2>4, BoundsAssumption
<1>3. \A k \in 1 .. 2 * M : /\ NewId(used, k) \in RelIds \ used
                            /\ \A j \in 1 .. k - 1 : NewId(used, j) # NewId(used, k)
  BY <1>2, NewIdAssumption
<1> HIDE DEF used
<1>4. ASSUME NEW from \in {0, M}, NEW k \in 1 .. M
      PROVE  NewId(used, from + k) \in RelIds \ used
  BY <1>3, BoundsAssumption
<1>5. ASSUME NEW from \in {0, M}, NEW j \in 1 .. M, NEW k \in 1 .. M,
             NewId(used, from + j) = NewId(used, from + k)
      PROVE  j = k
  <2>1. from + j \in 1 .. 2 * M /\ from + k \in 1 .. 2 * M
    BY BoundsAssumption
  <2>2. ~(from + j < from + k) /\ ~(from + k < from + j)
    BY <1>3, <1>5, <2>1
  <2> QED
    BY <2>1, <2>2, BoundsAssumption
<1>6. /\ \A k \in 1 .. M : ForwardIds(r, T, s, t)[k] = NewId(used, 0 + k)
      /\ \A k \in 1 .. M : InverseIds(r, T, s, t)[k] = NewId(used, M + k)
  BY DEF ForwardIds, InverseIds, NewIds, used, a, b
<1>7. /\ Len(r[s][T][t]) \in Nat /\ Len(r[s][T][t]) <= MaxSets
      /\ Len(r[t][T][s]) \in Nat /\ Len(r[t][T][s]) <= MaxSets
  BY LenProperties DEF WellKept
<1>8. a \subseteq used /\ b \subseteq used
  BY DEF used
<1>9. NewFor(ForwardIds(r, T, s, t), r[s][T][t])
  <2>1. \A k \in 1 .. Len(r[s][T][t]) + 1 : k \in 1 .. M
    BY <1>7, BoundsAssumption
  <2> QED
    BY <1>4, <1>5, <1>6, <1>8, <2>1 DEF NewFor, a
<1>10. NewFor(InverseIds(r, T, s, t), r[t][T][s])
  <2>1. \A k \in 1 .. Len(r[t][T][s]) + 1 : k \in 1 .. M
    BY <1>7, BoundsAssumption
  <2> QED
    BY <1>4, <1>5, <1>6, <1>8, <2>1 DEF NewFor, b
<1> QED
  BY <1>9, <1>10

-----------------------------------------------------------------------------
(* AddRelationTx *)

LEMMA InversePropertiesType ==
  ASSUME NEW T \in Types, NEW p \in PropertySet
  PROVE  InverseProperties(T, p) \in PropertySet
<1>1. InverseLabel[T] \in Labels
  BY DEF Labels
<1> QED
  BY <1>1 DEF InverseProperties, PropertySet

\* A set that is in use is not of an empty sequence.
LEMMA InUseNotEmpty ==
  ASSUME NEW sets, NEW p, InUse(sets, p)
  PROVE  sets # <<>>
BY DEF InUse, SameAs

LEMMA ForwardWellKept ==
  ASSUME NEW r, NEW T, NEW s, NEW t, NEW p \in PropertySet,
         WellKept(r[s][T][t]), WellKept(r[t][T][s]), Len(Forward(r, T, s, t, p)) <= MaxSets
  PROVE  /\ WellKept(Forward(r, T, s, t, p)) /\ Forward(r, T, s, t, p) # <<>>
         /\ ~InUse(r[s][T][t], p) => Len(Forward(r, T, s, t, p)) = Len(r[s][T][t]) + 1
<1>1. CASE InUse(r[s][T][t], p)
  <2>1. Forward(r, T, s, t, p) = FillProvenance(r[s][T][t], p)
    BY <1>1 DEF Forward
  <2>2. r[s][T][t] # <<>>
    BY <1>1, InUseNotEmpty
  <2> QED
    BY <1>1, <2>1, <2>2, FillProvenanceWellKept
<1>2. CASE ~InUse(r[s][T][t], p)
  <2>1. Forward(r, T, s, t, p) = AddSet(r[s][T][t], p, ForwardIds(r, T, s, t))
    BY <1>2 DEF Forward
  <2>2. NewFor(ForwardIds(r, T, s, t), r[s][T][t])
    BY NewIdsAreNew
  <2> QED
    BY <2>1, <2>2, AddSetIdentified DEF WellKept
<1> QED
  BY <1>1, <1>2

LEMMA OppositeWellKept ==
  ASSUME NEW r, NEW T \in Types, NEW s, NEW t, NEW p \in PropertySet, NEW q \in PropertySet,
         WellKept(r[s][T][t]), WellKept(r[t][T][s]),
         Len(Forward(r, T, s, t, p)) <= MaxSets, Len(Opposite(r, T, s, t, p, q)) <= MaxSets
  PROVE  /\ WellKept(Opposite(r, T, s, t, p, q))
         /\ r[t][T][s] # <<>> \/ ~InUse(r[s][T][t], p) => Opposite(r, T, s, t, p, q) # <<>>
<1> DEFINE forward == r[s][T][t]
           inverse == r[t][T][s]
           added   == IF InUse(inverse, q) THEN inverse ELSE AddSet(inverse, q, InverseIds(r, T, s, t))
           fresh   == Forward(r, T, s, t, p)
<1>1. CASE InUse(forward, p)
  <2>1. Opposite(r, T, s, t, p, q) =
          IF CanFill(forward, p) THEN FillProvenance(inverse, InverseProperties(T, p)) ELSE inverse
    BY <1>1 DEF Opposite
  <2>2. /\ WellKept(FillProvenance(inverse, InverseProperties(T, p)))
        /\ FillProvenance(inverse, InverseProperties(T, p)) = <<>> <=> inverse = <<>>
    BY InversePropertiesType, FillProvenanceWellKept
  <2> QED
    BY <1>1, <2>1, <2>2
<1>2. CASE ~InUse(forward, p)
  <2>1. WellKept(fresh) /\ fresh # <<>> /\ Len(fresh) = Len(forward) + 1
    BY <1>2, ForwardWellKept
  <2>2. added \in Seq(PropertySet) /\ added # <<>> /\ Identified(added)
    <3>1. CASE InUse(inverse, q)
      BY <3>1, InUseNotEmpty DEF WellKept
    <3>2. CASE ~InUse(inverse, q)
      BY <3>2, NewIdsAreNew, AddSetIdentified
    <3> QED
      BY <3>1, <3>2
  <2>3. Opposite(r, T, s, t, p, q) = IF Len(added) = Len(forward) + 1 THEN CopyIds(fresh, added) ELSE added
    BY <1>2 DEF Opposite
  <2> HIDE DEF forward, added, fresh
  <2>4. CASE Len(added) = Len(forward) + 1
    BY <2>1, <2>2, <2>3, <2>4, CopyIdsWellKept
  <2>5. CASE Len(added) # Len(forward) + 1
    BY <2>2, <2>3, <2>5 DEF WellKept
  <2> QED
    BY <2>4, <2>5
<1> QED
  BY <1>1, <1>2

\* AddRelationTx changes both directions of an edge.
Touches(edges, f, g) == <<f, g>> \in edges \/ <<g, f>> \in edges

\* The pairs that it does not touch stay as they are.
LEMMA AddTxRest ==
  ASSUME NEW st, NEW edges, NEW T \in Types, NEW p, NEW q, StoreOK(st),
         NEW f \in Files, NEW U \in Types, NEW g \in Files,
         U # T \/ ~Touches(edges, f, g)
  PROVE  AddTx(st, edges, T, p, q).rel[f][U][g] = st.rel[f][U][g]
BY DEF AddTx, StoreOK, Touches

LEMMA AddTxKeeps ==
  ASSUME NEW st, NEW edges \in SUBSET (Files \X Files), NEW T \in Types,
         NEW p \in PropertySet, NEW q \in PropertySet,
         StoreOK(st),
         \A f, g \in Files : Len(AddTx(st, edges, T, p, q).rel[f][T][g]) <= MaxSets
  PROVE  StoreOK(AddTx(st, edges, T, p, q))
<1> DEFINE new == AddTx(st, edges, T, p, q)
           L == ListAttrFor(T)
           Inverts(s, t) == <<s, t>> \in edges /\ s # t /\ ShouldWriteInverse(T, s, t)
           Added(s, t) == ~InUse(st.rel[s][T][t], p)
           Pair(f, g) == IF <<f, g>> \in edges THEN Forward(st.rel, T, f, g, p)
                         ELSE IF Inverts(g, f) THEN Opposite(st.rel, T, g, f, p, q)
                         ELSE st.rel[f][T][g]
<1>1. /\ st.rel \in [Files -> [Types -> [Files -> Seq(PropertySet)]]]
      /\ st.list \in [Files -> [Lists -> SUBSET Files]]
      /\ \A f, g \in Files, U \in Types : WellKept(st.rel[f][U][g])
      /\ \A f, g \in Files, K \in Lists :
           g \in st.list[f][K] => \E U \in Types : ListAttrFor(U) = K /\ st.rel[f][U][g] # <<>>
  BY DEF StoreOK
<1>2. /\ new.rel = [f \in Files |-> [st.rel[f] EXCEPT ![T] = [g \in Files |->
                      IF <<f, g>> \in edges THEN Forward(st.rel, T, f, g, p)
                      ELSE IF Inverts(g, f) THEN Opposite(st.rel, T, g, f, p, q)
                      ELSE @[g]]]]
      /\ new.list = [f \in Files |-> [st.list[f] EXCEPT ![L] =
                      @ \cup {g \in Files : \/ (<<f, g>> \in edges /\ Added(f, g))
                                            \/ (Inverts(g, f) /\ Added(g, f))}]]
  BY DEF AddTx
<1>3. ASSUME NEW f \in Files, NEW g \in Files PROVE new.rel[f][T][g] = Pair(f, g)
  <2>1. st.rel[f] = [U \in Types |-> st.rel[f][U]]
    BY <1>1
  <2>2. new.rel[f] = [st.rel[f] EXCEPT ![T] = [k \in Files |->
                      IF <<f, k>> \in edges THEN Forward(st.rel, T, f, k, p)
                      ELSE IF Inverts(k, f) THEN Opposite(st.rel, T, k, f, p, q)
                      ELSE @[k]]]
    BY <1>2
  <2> HIDE DEF new, Inverts
  <2> QED
    BY <2>1, <2>2
<1>4. \A f, g \in Files : Len(Pair(f, g)) <= MaxSets
  <2>1. \A f, g \in Files : Len(new.rel[f][T][g]) <= MaxSets
    OBVIOUS
  <2> HIDE DEF new, Pair
  <2> QED
    BY <1>3, <2>1
<1>5. ASSUME NEW f \in Files, NEW g \in Files
      PROVE  /\ WellKept(Pair(f, g))
             /\ st.rel[f][T][g] # <<>> => Pair(f, g) # <<>>
             /\ <<f, g>> \in edges => Pair(f, g) # <<>>
             /\ Inverts(g, f) /\ Added(g, f) => Pair(f, g) # <<>>
  <2>1. CASE <<f, g>> \in edges
    <3>1. Pair(f, g) = Forward(st.rel, T, f, g, p) /\ Len(Forward(st.rel, T, f, g, p)) <= MaxSets
      BY <1>4, <2>1
    <3> QED
      BY <1>1, <2>1, <3>1, ForwardWellKept
  <2>2. CASE <<f, g>> \notin edges /\ Inverts(g, f)
    <3>1. /\ Pair(f, g) = Opposite(st.rel, T, g, f, p, q)
          /\ Len(Opposite(st.rel, T, g, f, p, q)) <= MaxSets
          /\ Len(Forward(st.rel, T, g, f, p)) <= MaxSets
      BY <1>4, <2>2
    <3>2. /\ WellKept(Opposite(st.rel, T, g, f, p, q))
          /\ st.rel[f][T][g] # <<>> \/ ~InUse(st.rel[g][T][f], p) => Opposite(st.rel, T, g, f, p, q) # <<>>
      BY <1>1, <3>1, OppositeWellKept
    <3> QED
      BY <2>2, <3>1, <3>2
  <2>3. CASE <<f, g>> \notin edges /\ ~Inverts(g, f)
    BY <1>1, <2>3
  <2> QED
    BY <2>1, <2>2, <2>3
<1> HIDE DEF Pair
<1>6. ASSUME NEW f \in Files, NEW U \in Types, NEW g \in Files
      PROVE  new.rel[f][U][g] = IF U = T THEN Pair(f, g) ELSE st.rel[f][U][g]
  BY <1>1, <1>2, <1>3
<1>7. ASSUME NEW f \in Files, NEW g \in Files, NEW U \in Types
      PROVE  /\ WellKept(new.rel[f][U][g])
             /\ st.rel[f][U][g] # <<>> => new.rel[f][U][g] # <<>>
  <2>1. CASE U = T
    BY <1>5, <1>6, <2>1
  <2>2. CASE U # T
    BY <1>1, <1>6, <2>2
  <2> QED
    BY <2>1, <2>2
<1>8. new.rel \in [Files -> [Types -> [Files -> Seq(PropertySet)]]]
  <2>1. \A f, g \in Files : Pair(f, g) \in Seq(PropertySet)
    BY <1>5 DEF WellKept
  <2>2. new.rel = [f \in Files |-> [st.rel[f] EXCEPT ![T] = [g \in Files |-> Pair(f, g)]]]
    BY <1>1, <1>2 DEF Pair
  <2> QED
    BY <1>1, <2>1, <2>2
<1>9. new.list \in [Files -> [Lists -> SUBSET Files]]
  <2> DEFINE More(f) == {g \in Files : \/ (<<f, g>> \in edges /\ Added(f, g))
                                      \/ (Inverts(g, f) /\ Added(g, f))}
  <2>1. new.list = [f \in Files |-> [st.list[f] EXCEPT ![L] = @ \cup More(f)]]
    BY <1>2
  <2>2. \A f \in Files : More(f) \subseteq Files
    OBVIOUS
  <2> HIDE DEF More, L
  <2>3. ASSUME NEW f \in Files
        PROVE  [st.list[f] EXCEPT ![L] = @ \cup More(f)] \in [Lists -> SUBSET Files]
    <3>1. st.list[f] \in [Lists -> SUBSET Files] /\ More(f) \subseteq Files
      BY <1>1, <2>2
    <3>2. \A K \in Lists : st.list[f][K] \cup More(f) \in SUBSET Files
      BY <3>1
    <3> QED
      BY <3>1, <3>2
  <2> QED
    BY <2>1, <2>3
<1>10. ASSUME NEW f \in Files, NEW g \in Files, NEW K \in Lists, g \in new.list[f][K]
       PROVE  \E U \in Types : ListAttrFor(U) = K /\ new.rel[f][U][g] # <<>>
  <2>1. CASE g \in st.list[f][K]
    BY <1>1, <1>7, <2>1
  <2>2. CASE g \notin st.list[f][K]
    <3>1. K = L /\ (<<f, g>> \in edges \/ (Inverts(g, f) /\ Added(g, f)))
      BY <1>1, <1>2, <1>10, <2>2
    <3>2. new.rel[f][T][g] # <<>>
      BY <1>5, <1>6, <3>1
    <3> QED
      BY <3>1, <3>2
  <2> QED
    BY <2>1, <2>2
<1> QED
  BY <1>7, <1>8, <1>9, <1>10 DEF StoreOK

LEMMA AddTxOK ==
  ASSUME NEW st, NEW edges \in SUBSET (Files \X Files), NEW T \in Types,
         NEW p \in PropertySet, NEW q \in PropertySet,
         StoreOK(st), FitsBounds(AddTx(st, edges, T, p, q))
  PROVE  StoreOK(AddTx(st, edges, T, p, q))
BY AddTxKeeps DEF FitsBounds

-----------------------------------------------------------------------------
(* RemoveRelationTx and UpdateRelation *)

LEMMA StorePairOK ==
  ASSUME NEW st, NEW T \in Types, NEW s \in Files, NEW t \in Files, NEW forward, NEW inverse,
         StoreOK(st), WellKept(forward), WellKept(inverse)
  PROVE  StoreOK(StorePair(st, T, s, t, forward, inverse))
<1> DEFINE new == StorePair(st, T, s, t, forward, inverse)
           L == ListAttrFor(T)
           found == s # t /\ st.rel[t][T][s] # <<>>
           Pair(f, g) == IF f = s /\ g = t THEN forward ELSE IF f = t /\ g = s THEN inverse ELSE st.rel[f][T][g]
           Left(f) == IF f = s THEN Unlisted(st.list[f][L], t, forward)
                      ELSE IF f = t /\ found THEN Unlisted(st.list[f][L], s, inverse) ELSE st.list[f][L]
<1>1. /\ st.rel \in [Files -> [Types -> [Files -> Seq(PropertySet)]]]
      /\ st.list \in [Files -> [Lists -> SUBSET Files]]
      /\ \A f, g \in Files, U \in Types : WellKept(st.rel[f][U][g])
      /\ \A f, g \in Files, K \in Lists :
           g \in st.list[f][K] => \E U \in Types : ListAttrFor(U) = K /\ st.rel[f][U][g] # <<>>
  BY DEF StoreOK
<1>2. L \in Lists
  BY DEF ListAttrFor, Lists
<1>3. /\ new.rel = [f \in Files |-> [st.rel[f] EXCEPT ![T] = [g \in Files |-> Pair(f, g)]]]
      /\ new.list = [f \in Files |-> [st.list[f] EXCEPT ![L] = Left(f)]]
  <2>1. \A f \in Files : st.rel[f][T] = [st.rel[f] EXCEPT ![T] = st.rel[f][T]][T]
    BY <1>1
  <2> QED
    BY <1>1, <1>2 DEF StorePair
<1>4. \A f, g \in Files : WellKept(Pair(f, g))
  BY <1>1
<1>5. \A f, g \in Files : Pair(f, g) \in Seq(PropertySet)
  BY <1>4 DEF WellKept
<1>6. \A f \in Files : Left(f) \in SUBSET Files /\ Left(f) \subseteq st.list[f][L]
  BY <1>1, <1>2 DEF Unlisted
<1> HIDE DEF Pair, Left, L, new
<1>7. ASSUME NEW f \in Files, NEW U \in Types, NEW g \in Files
      PROVE  new.rel[f][U][g] = IF U = T THEN Pair(f, g) ELSE st.rel[f][U][g]
  <2>1. new.rel[f] = [st.rel[f] EXCEPT ![T] = [h \in Files |-> Pair(f, h)]]
    BY <1>3
  <2>2. st.rel[f] \in [Types -> [Files -> Seq(PropertySet)]]
    BY <1>1
  <2>3. new.rel[f][U] = IF U = T THEN [h \in Files |-> Pair(f, h)] ELSE st.rel[f][U]
    BY <2>1, <2>2
  <2> QED
    BY <2>3
<1>8. ASSUME NEW f \in Files, NEW K \in Lists
      PROVE  new.list[f][K] = IF K = L THEN Left(f) ELSE st.list[f][K]
  BY <1>1, <1>3
<1>9. new.rel \in [Files -> [Types -> [Files -> Seq(PropertySet)]]]
  <2>1. \A f \in Files : [st.rel[f] EXCEPT ![T] = [g \in Files |-> Pair(f, g)]]
                            \in [Types -> [Files -> Seq(PropertySet)]]
    BY <1>1, <1>5
  <2> QED
    BY <1>3, <2>1
<1>10. new.list \in [Files -> [Lists -> SUBSET Files]]
  <2>1. \A f \in Files : [st.list[f] EXCEPT ![L] = Left(f)] \in [Lists -> SUBSET Files]
    BY <1>1, <1>6
  <2> QED
    BY <1>3, <2>1
<1>11. ASSUME NEW f \in Files, NEW g \in Files, NEW U \in Types
       PROVE  WellKept(new.rel[f][U][g])
  <2>1. CASE U = T
    BY <1>4, <1>7, <2>1
  <2>2. CASE U # T
    BY <1>1, <1>7, <2>2
  <2> QED
    BY <2>1, <2>2
<1>12. ASSUME NEW f \in Files, NEW g \in Files, NEW K \in Lists, g \in new.list[f][K]
       PROVE  \E U \in Types : ListAttrFor(U) = K /\ new.rel[f][U][g] # <<>>
  <2>1. g \in st.list[f][K]
    BY <1>6, <1>8, <1>12
  <2>2. PICK U \in Types : ListAttrFor(U) = K /\ st.rel[f][U][g] # <<>>
    BY <1>1, <2>1
  <2>3. CASE new.rel[f][U][g] = st.rel[f][U][g]
    BY <2>2, <2>3
  <2>4. CASE new.rel[f][U][g] # st.rel[f][U][g]
    <3>1. U = T /\ Pair(f, g) # st.rel[f][T][g]
      BY <1>7, <2>4
    <3>2. K = L /\ g \in Left(f)
      BY <1>8, <1>12, <2>2, <3>1 DEF L
    <3>3. Pair(f, g) # <<>>
      BY <2>2, <3>1, <3>2 DEF Pair, Left, Unlisted
    <3> QED
      BY <1>7, <2>2, <3>1, <3>3
  <2> QED
    BY <2>3, <2>4
<1> QED
  BY <1>9, <1>10, <1>11, <1>12 DEF StoreOK, new

LEMMA FindSetFirst ==
  ASSUME NEW sets, NEW rid, WellKept(sets), FindSet(sets, rid) # {}
  PROVE  First(FindSet(sets, rid)) \in DOMAIN sets
<1>1. DOMAIN sets = 1 .. Len(sets) /\ Len(sets) \in Nat
  BY LenProperties DEF WellKept
<1>2. FindSet(sets, rid) \in SUBSET Nat /\ FindSet(sets, rid) \subseteq DOMAIN sets
  BY <1>1 DEF FindSet
<1> QED
  BY <1>2, FirstOfSet

LEMMA RemoveOneOK ==
  ASSUME NEW st, NEW s \in Files, NEW T \in Types, NEW t \in Files, StoreOK(st),
         NEW i \in DOMAIN st.rel[s][T][t]
  PROVE  StoreOK(RemoveOne(st, s, T, t, i))
<1> DEFINE rid == st.rel[s][T][t][i].rid
           inverse == st.rel[t][T][s]
<1>1. WellKept(st.rel[s][T][t]) /\ WellKept(inverse)
  BY DEF StoreOK
<1>2. WellKept(RemoveSet(st.rel[s][T][t], i))
  BY <1>1, RemoveSetWellKept
<1>3. WellKept(InverseWithout(inverse, rid))
  <2> HIDE DEF inverse, rid
  <2>1. CASE FindSet(inverse, rid) = {}
    BY <1>1, <2>1 DEF InverseWithout
  <2>2. CASE FindSet(inverse, rid) # {}
    BY <1>1, <2>2, FindSetFirst, RemoveSetWellKept DEF InverseWithout
  <2> QED
    BY <2>1, <2>2
<1> QED
  BY <1>1, <1>2, <1>3, StorePairOK DEF RemoveOne

LEMMA ReplaceOK ==
  ASSUME NEW st, NEW s \in Files, NEW T \in Types, NEW t \in Files, StoreOK(st),
         NEW i \in DOMAIN st.rel[s][T][t], NEW p \in PropertySet
  PROVE  /\ StoreOK(Replace(st, s, T, t, i, p))
         /\ Replace(st, s, T, t, i, p).rel[s][T][t] = ReplaceSet(st.rel[s][T][t], i, p)
<1> DEFINE rid == st.rel[s][T][t][i].rid
           inverse == st.rel[t][T][s]
           first == First(FindSet(inverse, rid))
           q == InverseProperties(T, p)
           same == [q EXCEPT !.label = inverse[first].label]
<1>1. WellKept(st.rel[s][T][t]) /\ WellKept(inverse)
  BY DEF StoreOK
<1>2. WellKept(ReplaceSet(st.rel[s][T][t], i, p))
  BY <1>1, ReplaceSetWellKept
<1>3. WellKept(ReplaceInverse(T, inverse, rid, p))
  <2>1. CASE FindSet(inverse, rid) = {}
    BY <1>1, <2>1 DEF ReplaceInverse
  <2>2. CASE FindSet(inverse, rid) # {}
    <3>1. first \in DOMAIN inverse
      BY <1>1, <2>2, FindSetFirst
    <3>2. q \in PropertySet
      BY InversePropertiesType
    <3>3. inverse[first] \in PropertySet
      BY <1>1, <3>1, ElementOfSeq, LenProperties DEF WellKept
    <3> HIDE DEF inverse, first, q
    <3>4. same \in PropertySet
      BY <3>2, <3>3 DEF PropertySet
    <3>5. \/ ReplaceInverse(T, inverse, rid, p) = ReplaceSet(inverse, first, q)
          \/ ReplaceInverse(T, inverse, rid, p) = ReplaceSet(inverse, first, same)
      BY <2>2 DEF ReplaceInverse, first, q
    <3> HIDE DEF same
    <3> QED
      BY <1>1, <3>1, <3>2, <3>4, <3>5, ReplaceSetWellKept
  <2> QED
    BY <2>1, <2>2
<1>4. StoreOK(Replace(st, s, T, t, i, p))
  BY <1>1, <1>2, <1>3, StorePairOK DEF Replace
<1>5. Replace(st, s, T, t, i, p).rel[s][T][t] = ReplaceSet(st.rel[s][T][t], i, p)
  BY DEF Replace, StorePair, StoreOK
<1> QED
  BY <1>4, <1>5

LEMMA RemoveWholeOK ==
  ASSUME NEW st, NEW s \in Files, NEW gone \in SUBSET (Types \X Files), StoreOK(st)
  PROVE  StoreOK(RemoveWhole(st, s, gone))
<1> DEFINE new == RemoveWhole(st, s, gone)
           Inverts(T, f) == <<T, f>> \in gone /\ FindsInverse(s, f)
           Goes(f, T, g) == (f = s /\ <<T, g>> \in gone) \/ (g = s /\ Inverts(T, f))
           Left(f, L) ==
             IF f = s
             THEN st.list[f][L] \ {g \in Files : \E T \in Types : ListAttrFor(T) = L /\ <<T, g>> \in gone}
             ELSE IF \E T \in Types : ListAttrFor(T) = L /\ Inverts(T, f) /\ st.rel[f][T][s] # <<>>
             THEN st.list[f][L] \ {s}
             ELSE st.list[f][L]
<1>1. /\ st.rel \in [Files -> [Types -> [Files -> Seq(PropertySet)]]]
      /\ st.list \in [Files -> [Lists -> SUBSET Files]]
      /\ \A f, g \in Files, U \in Types : WellKept(st.rel[f][U][g])
      /\ \A f, g \in Files, K \in Lists :
           g \in st.list[f][K] => \E U \in Types : ListAttrFor(U) = K /\ st.rel[f][U][g] # <<>>
  BY DEF StoreOK
<1>2. /\ new.rel = [f \in Files |-> [T \in Types |-> [g \in Files |->
                      IF Goes(f, T, g) THEN <<>> ELSE st.rel[f][T][g]]]]
      /\ new.list = [f \in Files |-> [L \in Lists |-> Left(f, L)]]
  BY DEF RemoveWhole
<1>3. \A f, g \in Files, T \in Types : new.rel[f][T][g] = IF Goes(f, T, g) THEN <<>> ELSE st.rel[f][T][g]
  BY <1>2
<1>4. \A f \in Files, L \in Lists : new.list[f][L] = Left(f, L)
  BY <1>2
<1>5. ASSUME NEW f \in Files, NEW g \in Files, NEW T \in Types
      PROVE  WellKept(new.rel[f][T][g])
  <2> HIDE DEF new, Goes
  <2>1. CASE Goes(f, T, g)
    <3>1. new.rel[f][T][g] = <<>>
      BY <1>3, <2>1
    <3> QED
      BY <3>1, NoSets
  <2>2. CASE ~Goes(f, T, g)
    BY <1>1, <1>3, <2>2
  <2> QED
    BY <2>1, <2>2
<1>6. \A f, g \in Files, T \in Types : new.rel[f][T][g] \in Seq(PropertySet)
  BY <1>5 DEF WellKept
<1>7. new.rel \in [Files -> [Types -> [Files -> Seq(PropertySet)]]]
  BY <1>2, <1>3, <1>6
<1>8. ASSUME NEW f \in Files, NEW L \in Lists
      PROVE  Left(f, L) \in SUBSET Files /\ Left(f, L) \subseteq st.list[f][L]
  <2>1. st.list[f][L] \in SUBSET Files
    BY <1>1
  <2> QED
    BY <2>1
<1>9. new.list \in [Files -> [Lists -> SUBSET Files]]
  <2> HIDE DEF new, Left
  <2> QED
    BY <1>2, <1>8
<1>10. ASSUME NEW f \in Files, NEW g \in Files, NEW L \in Lists, g \in new.list[f][L]
       PROVE  \E T \in Types : ListAttrFor(T) = L /\ new.rel[f][T][g] # <<>>
  <2>1. g \in Left(f, L) /\ g \in st.list[f][L]
    BY <1>4, <1>8, <1>10
  <2>2. PICK T \in Types : ListAttrFor(T) = L /\ st.rel[f][T][g] # <<>>
    BY <1>1, <2>1
  <2>3. ~Goes(f, T, g)
    <3>1. CASE f = s
      BY <2>1, <2>2, <3>1 DEF FindsInverse
    <3>2. CASE f # s
      BY <2>1, <2>2, <3>2
    <3> QED
      BY <3>1, <3>2
  <2> QED
    BY <1>3, <2>2, <2>3
<1> QED
  BY <1>5, <1>7, <1>9, <1>10 DEF StoreOK

-----------------------------------------------------------------------------
(* The requests *)

LEMMA CommitOK ==
  ASSUME NEW st, StoreOK(st), Commit(st)
  PROVE  StoreOK(Store)'
BY DEF Commit, StoreOK, Store

LEMMA StaysOK ==
  ASSUME RelationsInv, UNCHANGED attributes
  PROVE  StoreOK(Store)'
BY DEF RelationsInv, StoreOK, Store, attributes

LEMMA FailOK ==
  ASSUME RelationsInv, NEW before \in SUBSET Files, NEW s, NEW t, Fail(before, s, t),
         UNCHANGED <<files, ambiguous, sticky>>
  PROVE  RelationsInv'
<1>1. StoreOK(Store)'
  BY StaysOK DEF Fail
<1> QED
  BY <1>1 DEF RelationsInv, FilesOK, Fail

\* What a request removes or replaces is there.
LEMMA AddressedIsThere ==
  ASSUME NEW sets, NEW rid, NEW override, NEW i \in Addressed(sets, rid, override)
  PROVE  i \in DOMAIN sets
BY DEF Addressed, FindSet

LEMMA AddedPropertiesType ==
  ASSUME RelationsInv, NEW T \in Types, NEW p \in Inputs, NEW sender \in Senders, NEW own \in OwnLabels
  PROVE  /\ AddedProperties(T, p, sender) \in PropertySet
         /\ AddedInverse(T, AddedProperties(T, p, sender), own) \in PropertySet
<1> DEFINE added == AddedProperties(T, p, sender)
<1>1. p \in PropertySet
  BY SentAssumption DEF Sent
<1>2. StickyClassifications \in SUBSET Files
  BY DEF RelationsInv, FilesOK, StickyClassifications
<1>3. added \in PropertySet
  <2> DEFINE creator == IF p.provenance # NoCreator THEN p.provenance ELSE sender
             listed  == IF ListsSticky(T, p) THEN StickyClassifications ELSE p.classifications
  <2>1. added = [p EXCEPT !.provenance = creator, !.classifications = listed, !.rid = NoRelationId]
    BY DEF AddedProperties
  <2>2. creator \in {NoCreator, Server} \cup Senders \cup {x.provenance : x \in Sent}
    BY <1>1 DEF PropertySet
  <2>3. listed \in SUBSET Files
    BY <1>1, <1>2 DEF PropertySet
  <2> HIDE DEF creator, listed, added
  <2> QED
    BY <1>1, <2>1, <2>2, <2>3 DEF PropertySet
<1>4. own \in Labels
  BY DEF Labels
<1>5. InverseProperties(T, added) \in PropertySet
  BY <1>3, InversePropertiesType
<1> HIDE DEF added
<1>6. AddedInverse(T, added, own) \in PropertySet
  <2> DEFINE inverse == InverseProperties(T, added)
             label   == IF own # NoLabel THEN own ELSE inverse.label
  <2>1. AddedInverse(T, added, own) = [inverse EXCEPT !.label = label]
    BY <1>5 DEF AddedInverse, PropertySet
  <2>2. label \in Labels
    BY <1>4, <1>5 DEF PropertySet
  <2> HIDE DEF inverse, label
  <2>3. inverse \in PropertySet
    BY <1>5 DEF inverse
  <2> QED
    BY <2>1, <2>2, <2>3 DEF PropertySet
<1> QED
  BY <1>3, <1>6 DEF added

LEMMA AddRelationOK ==
  ASSUME RelationsInv, NEW source \in Files, NEW target \in Files, NEW T \in Types,
         NEW p \in Inputs, NEW sender \in Senders, NEW own \in OwnLabels,
         AddRelation(source, target, T, p, sender, own)
  PROVE  RelationsInv'
<1> DEFINE s     == IF Swaps(T, source, target) THEN target ELSE source
           t     == IF Swaps(T, source, target) THEN source ELSE target
           made  == StickyIds(T, p)
           added == AddedProperties(T, p, sender)
           new   == AddTx(Store, {<<s, t>>}, T, added, AddedInverse(T, added, own))
<1>1. s \in Files /\ t \in Files /\ s \in files
  BY DEF AddRelation
<1>2. made \subseteq files /\ files \subseteq Files
  BY DEF StickyIds, StickyClassifications, RelationsInv, FilesOK
<1>3. UNCHANGED <<files, ambiguous, sticky>>
  BY DEF AddRelation
<1>4. \/ t \in files /\ FitsBounds(new) /\ Commit(new) /\ ids' = ids \cup {s, t} \cup made
      \/ Fail(made, s, t)
  BY DEF AddRelation
<1>5. added \in PropertySet /\ AddedInverse(T, added, own) \in PropertySet
  BY AddedPropertiesType
<1> HIDE DEF s, t, made, added
<1>6. CASE t \in files /\ FitsBounds(new) /\ Commit(new) /\ ids' = ids \cup {s, t} \cup made
  <2>1. {<<s, t>>} \in SUBSET (Files \X Files)
    BY <1>1
  <2>2. StoreOK(new)
    BY <1>5, <1>6, <2>1, AddTxOK DEF RelationsInv
  <2>3. StoreOK(Store)'
    BY <1>6, <2>2, CommitOK
  <2> QED
    BY <1>1, <1>2, <1>3, <1>6, <2>3 DEF RelationsInv, FilesOK
<1>7. CASE Fail(made, s, t)
  BY <1>2, <1>3, <1>7, FailOK
<1> QED
  BY <1>4, <1>6, <1>7

LEMMA RemoveRelationOK ==
  ASSUME RelationsInv, NEW s \in Files, NEW T \in Types, NEW t \in Files, NEW rid, NEW mode,
         RemoveRelation(s, T, t, rid, mode)
  PROVE  RelationsInv'
<1>1. PICK i \in Addressed(rel[s][T][t], rid, mode = "override") : Commit(RemoveOne(Store, s, T, t, i))
  BY DEF RemoveRelation
<1>2. i \in DOMAIN Store.rel[s][T][t]
  BY AddressedIsThere DEF Store
<1>3. StoreOK(RemoveOne(Store, s, T, t, i))
  BY <1>2, RemoveOneOK DEF RelationsInv
<1>4. StoreOK(Store)'
  BY <1>1, <1>3, CommitOK
<1> QED
  BY <1>4 DEF RelationsInv, FilesOK, RemoveRelation

LEMMA RemoveRelationAllSetsOK ==
  ASSUME RelationsInv, NEW s \in Files, NEW T \in Types, NEW t \in Files, NEW mode,
         RemoveRelationAllSets(s, T, t, mode)
  PROVE  RelationsInv'
<1>1. StoreOK(RemoveWhole(Store, s, {<<T, t>>}))
  BY RemoveWholeOK DEF RelationsInv
<1>2. StoreOK(Store)'
  BY <1>1, CommitOK DEF RemoveRelationAllSets
<1> QED
  BY <1>2 DEF RelationsInv, FilesOK, RemoveRelationAllSets

LEMMA RemoveAllRelationsOK ==
  ASSUME RelationsInv, NEW s \in Files, NEW types \in SUBSET Types, NEW mode,
         RemoveAllRelations(s, types, mode)
  PROVE  RelationsInv'
<1> DEFINE gone == {k \in types \X Files : /\ RemovesAll(rel[s][k[1]][k[2]], mode)
                                           /\ mode = "stale" => Stale(rel[s][k[1]][k[2]], k[2])}
<1>1. gone \in SUBSET (Types \X Files)
  OBVIOUS
<1>2. Commit(RemoveWhole(Store, s, gone))
  BY DEF RemoveAllRelations
<1> HIDE DEF gone
<1>3. StoreOK(Store)'
  BY <1>1, <1>2, RemoveWholeOK, CommitOK DEF RelationsInv
<1> QED
  BY <1>3 DEF RelationsInv, FilesOK, RemoveAllRelations

\* The set is replaced, added at its new place, and removed from the old one,
\* where it still is.
LEMMA UpdateRelationOK ==
  ASSUME RelationsInv, NEW s \in Files, NEW T \in Types, NEW t \in Files, NEW rid,
         NEW properties \in Updates, NEW newTarget \in Files \cup {NoFile},
         NEW newType \in Types \cup {NoType}, NEW mode,
         UpdateRelation(s, T, t, rid, properties, newTarget, newType, mode)
  PROVE  RelationsInv'
<1> DEFINE to == IF newTarget = NoFile THEN t ELSE newTarget
           U  == IF newType = NoType THEN T ELSE newType
           Replaced(i) == IF properties = NoProperties THEN Store ELSE Replace(Store, s, T, t, i, properties)
           set(i)   == WithoutId(Replaced(i).rel[s][T][t][i])
           Added(i) == AddTx(Replaced(i), {<<s, to>>}, U, set(i), InverseProperties(U, set(i)))
<1>1. to \in Files /\ U \in Types
  OBVIOUS
<1>2. s \in files /\ UNCHANGED <<files, ambiguous, sticky>>
  BY DEF UpdateRelation
<1>3. PICK i \in Addressed(rel[s][T][t], rid, mode = "override") :
        \/ /\ to = t /\ U = T
           /\ Commit(Replaced(i))
           /\ UNCHANGED ids
        \/ /\ to # t \/ U # T
           /\ to \in files
           /\ FitsBounds(Added(i))
           /\ Commit(RemoveOne(Added(i), s, T, t, i))
           /\ ids' = ids \cup {s, to}
        \/ Fail({}, s, to)
  BY DEF UpdateRelation
<1> HIDE DEF to, U
<1>4. i \in DOMAIN Store.rel[s][T][t]
  BY AddressedIsThere DEF Store
<1>5. StoreOK(Replaced(i)) /\ i \in DOMAIN Replaced(i).rel[s][T][t]
  <2>1. CASE properties = NoProperties
    BY <1>4, <2>1 DEF RelationsInv
  <2>2. CASE properties # NoProperties
    <3>1. properties \in PropertySet
      BY <2>2, SentAssumption DEF Sent
    <3>2. /\ StoreOK(Replace(Store, s, T, t, i, properties))
          /\ Replace(Store, s, T, t, i, properties).rel[s][T][t] = ReplaceSet(Store.rel[s][T][t], i, properties)
      BY <1>4, <3>1, ReplaceOK DEF RelationsInv
    <3> QED
      BY <1>4, <2>2, <3>2 DEF ReplaceSet
  <2> QED
    BY <2>1, <2>2
<1>6. set(i) \in PropertySet
  <2>1. WellKept(Replaced(i).rel[s][T][t])
    BY <1>5 DEF StoreOK
  <2>2. Replaced(i).rel[s][T][t][i] \in PropertySet
    BY <1>5, <2>1, ElementOfSeq, LenProperties DEF WellKept
  <2> QED
    BY <2>2, WithoutIdType
<1> HIDE DEF Replaced, set
<1>7. CASE to = t /\ U = T /\ Commit(Replaced(i)) /\ UNCHANGED ids
  <2>1. StoreOK(Store)'
    BY <1>5, <1>7, CommitOK
  <2> QED
    BY <1>2, <1>7, <2>1 DEF RelationsInv, FilesOK
<1>8. CASE /\ to # t \/ U # T
           /\ to \in files
           /\ FitsBounds(Added(i))
           /\ Commit(RemoveOne(Added(i), s, T, t, i))
           /\ ids' = ids \cup {s, to}
  <2>1. {<<s, to>>} \in SUBSET (Files \X Files) /\ InverseProperties(U, set(i)) \in PropertySet
    BY <1>1, <1>6, InversePropertiesType
  <2>2. StoreOK(Added(i))
    BY <1>1, <1>5, <1>6, <1>8, <2>1, AddTxOK
  <2>3. Added(i).rel[s][T][t] = Replaced(i).rel[s][T][t]
    <3>1. T # U \/ ~Touches({<<s, to>>}, s, t)
      BY <1>8 DEF Touches
    <3> QED
      BY <1>1, <1>5, <3>1, AddTxRest
  <2> HIDE DEF Added
  <2>5. StoreOK(RemoveOne(Added(i), s, T, t, i))
    BY <1>5, <2>2, <2>3, RemoveOneOK
  <2>6. StoreOK(Store)'
    BY <1>8, <2>5, CommitOK
  <2> QED
    BY <1>2, <1>8, <2>6 DEF RelationsInv, FilesOK
<1>9. CASE Fail({}, s, to)
  BY <1>2, <1>9, FailOK
<1> QED
  BY <1>3, <1>7, <1>8, <1>9

LEMMA ApplyStickyOK ==
  ASSUME RelationsInv, NEW new \in SUBSET Files, ApplySticky(new)
  PROVE  RelationsInv'
<1> DEFINE edges == new \X StickyClassifications
           st    == AddTx(Store, edges, Association, Plain, InverseProperties(Association, Plain))
<1>1. /\ Association \in Types
      /\ StickyClassifications \subseteq files /\ files \subseteq Files
      /\ UNCHANGED <<files, ambiguous, sticky>>
  BY DEF ApplySticky, StickyClassifications, RelationsInv, FilesOK
<1>2. Plain \in PropertySet
  BY DEF Plain, PropertySet, Labels
<1>3. \/ /\ new \subseteq files /\ FitsBounds(st) /\ Commit(st)
         /\ ids' = ids \cup new \cup StickyClassifications
      \/ /\ ids' \in {ids \cup (made \cap files) : made \in SUBSET (new \cup StickyClassifications)}
         /\ UNCHANGED attributes
  BY DEF ApplySticky
<1>4. edges \in SUBSET (Files \X Files)
  BY <1>1
<1> HIDE DEF edges
<1>5. CASE /\ new \subseteq files /\ FitsBounds(st) /\ Commit(st)
           /\ ids' = ids \cup new \cup StickyClassifications
  <2>1. StoreOK(st)
    BY <1>1, <1>2, <1>4, <1>5, InversePropertiesType, AddTxOK DEF RelationsInv
  <2>2. StoreOK(Store)'
    BY <1>5, <2>1, CommitOK
  <2> QED
    BY <1>1, <1>5, <2>2 DEF RelationsInv, FilesOK
<1>6. CASE /\ ids' \in {ids \cup (made \cap files) : made \in SUBSET (new \cup StickyClassifications)}
           /\ UNCHANGED attributes
  BY <1>1, <1>6, StaysOK DEF RelationsInv, FilesOK
<1> QED
  BY <1>3, <1>5, <1>6

LEMMA ToggleStickyOK ==
  ASSUME RelationsInv, NEW c \in Files, ToggleSticky(c)
  PROVE  RelationsInv'
<1>1. UNCHANGED attributes
  BY DEF ToggleSticky, attributes
<1> QED
  BY <1>1, StaysOK, FilesAssumption DEF RelationsInv, FilesOK, ToggleSticky

LEMMA DeleteFileOK ==
  ASSUME RelationsInv, NEW d \in Files, DeleteFile(d)
  PROVE  RelationsInv'
<1>1. /\ rel \in [Files -> [Types -> [Files -> Seq(PropertySet)]]]
      /\ list \in [Files -> [Lists -> SUBSET Files]]
      /\ \A f, g \in Files, T \in Types : WellKept(rel[f][T][g])
      /\ \A f, g \in Files, L \in Lists :
           g \in list[f][L] => \E T \in Types : ListAttrFor(T) = L /\ rel[f][T][g] # <<>>
  BY DEF RelationsInv, StoreOK, Store
<1>2. /\ rel' = [rel EXCEPT ![d] = [T \in Types |-> [g \in Files |-> <<>>]]]
      /\ list' = [list EXCEPT ![d] = [L \in Lists |-> {}]]
  BY DEF DeleteFile
<1>3. \A f, g \in Files, T \in Types : rel'[f][T][g] = IF f = d THEN <<>> ELSE rel[f][T][g]
  BY <1>1, <1>2
<1>4. rel' \in [Files -> [Types -> [Files -> Seq(PropertySet)]]]
  <2>1. [T \in Types |-> [g \in Files |-> <<>>]] \in [Types -> [Files -> Seq(PropertySet)]]
    BY EmptySeq
  <2> QED
    BY <1>1, <1>2, <2>1
<1>5. list' \in [Files -> [Lists -> SUBSET Files]]
  BY <1>1, <1>2
<1>6. ASSUME NEW f \in Files, NEW g \in Files, NEW T \in Types
      PROVE  WellKept(rel'[f][T][g])
  <2>1. CASE f = d
    BY <1>3, <2>1, NoSets
  <2>2. CASE f # d
    BY <1>1, <1>3, <2>2
  <2> QED
    BY <2>1, <2>2
<1>7. ASSUME NEW f \in Files, NEW g \in Files, NEW L \in Lists, g \in list'[f][L]
      PROVE  \E T \in Types : ListAttrFor(T) = L /\ rel'[f][T][g] # <<>>
  <2>1. f # d /\ list'[f][L] = list[f][L]
    BY <1>1, <1>2, <1>7
  <2>2. PICK T \in Types : ListAttrFor(T) = L /\ rel[f][T][g] # <<>>
    BY <1>1, <1>7, <2>1
  <2>3. rel'[f][T][g] = rel[f][T][g]
    BY <1>3, <2>1
  <2> QED
    BY <2>2, <2>3
<1>8. StoreOK(Store)'
  BY <1>4, <1>5, <1>6, <1>7 DEF StoreOK, Store
<1> QED
  BY <1>8 DEF RelationsInv, FilesOK, DeleteFile

LEMMA CopyFileOK ==
  ASSUME RelationsInv, NEW f \in Files, CopyFile(f) \/ FindCopy(f)
  PROVE  RelationsInv'
<1>1. UNCHANGED attributes
  BY DEF CopyFile, FindCopy, attributes
<1> QED
  BY <1>1, StaysOK DEF RelationsInv, FilesOK, CopyFile, FindCopy

-----------------------------------------------------------------------------

LEMMA InitRelationsInv == Init => RelationsInv
<1> SUFFICES ASSUME Init PROVE RelationsInv
  OBVIOUS
<1>1. StoreOK(Store)
  BY NoSets, EmptySeq DEF Init, StoreOK, Store
<1> QED
  BY <1>1 DEF Init, RelationsInv, FilesOK

LEMMA NextRelationsInv == RelationsInv /\ [Next]_vars => RelationsInv'
<1> SUFFICES ASSUME RelationsInv, [Next]_vars
             PROVE  RelationsInv'
  OBVIOUS
<1>1. ASSUME NEW s \in Files, NEW t \in Files, NEW T \in Types,
             \E p \in Inputs, sender \in Senders, own \in OwnLabels : AddRelation(s, t, T, p, sender, own)
      PROVE  RelationsInv'
  BY <1>1, AddRelationOK
<1>2. ASSUME NEW s \in Files, NEW t \in Files, NEW T \in Types,
             \E rid \in RequestIds(s, T, t), mode \in OneModes : RemoveRelation(s, T, t, rid, mode)
      PROVE  RelationsInv'
  BY <1>2, RemoveRelationOK
<1>3. ASSUME NEW s \in Files, NEW t \in Files, NEW T \in Types,
             \E mode \in OneModes : RemoveRelationAllSets(s, T, t, mode)
      PROVE  RelationsInv'
  BY <1>3, RemoveRelationAllSetsOK
<1>4. ASSUME NEW s \in Files, NEW t \in Files, NEW T \in Types,
             NEW rid \in RequestIds(s, T, t), NEW p \in Updates, NEW to \in Files \cup {NoFile},
             NEW mode \in OneModes, NEW U \in Types \cup (IF to = NoFile THEN {NoType} ELSE {}),
             UpdateRelation(s, T, t, rid, p, to, U, mode)
      PROVE  RelationsInv'
  <2>1. U \in Types \cup {NoType}
    OBVIOUS
  <2> QED
    BY <1>4, <2>1, UpdateRelationOK
<1>5. ASSUME NEW s \in Files, NEW types \in {Types} \cup {{T} : T \in Types}, NEW mode \in RemoveModes,
             RemoveAllRelations(s, types, mode)
      PROVE  RelationsInv'
  <2>1. types \in SUBSET Types
    OBVIOUS
  <2> QED
    BY <1>5, <2>1, RemoveAllRelationsOK
<1>6. ASSUME NEW new \in SUBSET Files, ApplySticky(new)
      PROVE  RelationsInv'
  BY <1>6, ApplyStickyOK
<1>7. ASSUME NEW f \in Files, ToggleSticky(f) \/ DeleteFile(f) \/ CopyFile(f) \/ FindCopy(f)
      PROVE  RelationsInv'
  BY <1>7, ToggleStickyOK, DeleteFileOK, CopyFileOK
<1>8. CASE UNCHANGED vars
  BY <1>8, StaysOK DEF vars, attributes, RelationsInv, FilesOK
<1>9. ASSUME NEW s \in Files, NEW t \in Files, NEW T \in Types,
             \E rid \in RequestIds(s, T, t), p \in Updates, to \in Files \cup {NoFile}, mode \in OneModes :
               \E U \in Types \cup (IF to = NoFile THEN {NoType} ELSE {}) :
                 UpdateRelation(s, T, t, rid, p, to, U, mode)
      PROVE  RelationsInv'
  BY <1>4, <1>9, Zenon
<1> QED
  BY <1>1, <1>2, <1>3, <1>5, <1>6, <1>7, <1>8, <1>9, Zenon DEF Next

\* The strengthening holds in every state.
THEOREM RelationsInvariant == Spec => []RelationsInv
BY InitRelationsInv, NextRelationsInv, PTL DEF Spec

\* Whatever clients, users and failures do, only files that are there have an
\* id, and the attributes hold property sets.
THEOREM RelationsTyped == Spec => []TypeOK
<1>1. RelationsInv => TypeOK
  BY DEF RelationsInv, FilesOK, StoreOK, Store, TypeOK
<1> QED
  BY <1>1, RelationsInvariant, PTL

\* A relation id always names one property set of its target, and without id a
\* request can only mean a single one.
THEOREM RelationIdsAlwaysIdentify == Spec => []RelationIdsIdentify
<1>1. RelationsInv => RelationIdsIdentify
  BY DEF RelationsInv, StoreOK, Store, WellKept, Identified, RelationIdsIdentify
<1> QED
  BY <1>1, RelationsInvariant, PTL

\* No list ever names a file without a relation to it.
THEOREM ListedAreAlwaysRelated == Spec => []ListedAreRelated
<1>1. RelationsInv => ListedAreRelated
  BY DEF RelationsInv, StoreOK, Store, ListedAreRelated, Related
<1> QED
  BY <1>1, RelationsInvariant, PTL

-----------------------------------------------------------------------------
(* What is related is listed, as long as its type has its list for itself.  *)
(* SEN:META is only ever that of the association type; two types share      *)
(* SEN:TO, and one loses a target there with the last set of the other.     *)

OwnList(T) == \A U \in Types : ListAttrFor(U) = ListAttrFor(T) => U = T

TargetsListed(st) ==
  \A T \in Types : OwnList(T) =>
    \A f, g \in Files : st.rel[f][T][g] # <<>> => g \in st.list[f][ListAttrFor(T)]

\* Who has relations has an id, and so does the target that is there.
HaveIds(st, there, known) ==
  \A f, g \in Files, T \in Types :
    st.rel[f][T][g] # <<>> => f \in known /\ (g \in there => g \in known)

Listed(st, there, known) == TargetsListed(st) /\ HaveIds(st, there, known)

\* The inductive invariant.
ListedInv == RelationsInv /\ Listed(Store, files, ids)

\* A change that makes no relation.
NothingAdded(old, new) ==
  \A f, g \in Files, T \in Types : new.rel[f][T][g] # <<>> => old.rel[f][T][g] # <<>>

LEMMA NothingAddedIds ==
  ASSUME NEW old, NEW new, NEW there, NEW known, HaveIds(old, there, known), NothingAdded(old, new)
  PROVE  HaveIds(new, there, known)
BY DEF HaveIds, NothingAdded

LEMMA ListAttrIsList ==
  ASSUME NEW T
  PROVE  ListAttrFor(T) \in Lists
BY DEF ListAttrFor, Lists

\* The opposite of a relation that was there is only filled in.
LEMMA OppositeOfOld ==
  ASSUME NEW r, NEW T \in Types, NEW s, NEW t, NEW p \in PropertySet, NEW q,
         WellKept(r[t][T][s]), InUse(r[s][T][t], p), Opposite(r, T, s, t, p, q) # <<>>
  PROVE  r[t][T][s] # <<>>
<1>1. Opposite(r, T, s, t, p, q) =
        IF CanFill(r[s][T][t], p) THEN FillProvenance(r[t][T][s], InverseProperties(T, p)) ELSE r[t][T][s]
  BY DEF Opposite
<1>2. FillProvenance(r[t][T][s], InverseProperties(T, p)) = <<>> <=> r[t][T][s] = <<>>
  BY InversePropertiesType, FillProvenanceWellKept
<1> QED
  BY <1>1, <1>2

\* AddRelationTx takes nothing from a list, and lists what it adds.
LEMMA AddTxLists ==
  ASSUME NEW st, NEW edges, NEW T \in Types, NEW p \in PropertySet, NEW q, StoreOK(st),
         NEW f \in Files, NEW g \in Files
  PROVE  /\ \A L \in Lists : st.list[f][L] \subseteq AddTx(st, edges, T, p, q).list[f][L]
         /\ AddTx(st, edges, T, p, q).rel[f][T][g] # <<>> =>
              \/ st.rel[f][T][g] # <<>>
              \/ Touches(edges, f, g) /\ g \in AddTx(st, edges, T, p, q).list[f][ListAttrFor(T)]
<1> DEFINE new == AddTx(st, edges, T, p, q)
           M == ListAttrFor(T)
           Inverts(s, t) == <<s, t>> \in edges /\ s # t /\ ShouldWriteInverse(T, s, t)
           Added(s, t) == ~InUse(st.rel[s][T][t], p)
           More == {h \in Files : \/ (<<f, h>> \in edges /\ Added(f, h))
                                  \/ (Inverts(h, f) /\ Added(h, f))}
<1>1. /\ st.rel \in [Files -> [Types -> [Files -> Seq(PropertySet)]]]
      /\ st.list \in [Files -> [Lists -> SUBSET Files]]
      /\ \A h, k \in Files, U \in Types : WellKept(st.rel[h][U][k])
  BY DEF StoreOK
<1>2. M \in Lists
  BY ListAttrIsList
<1>3. new.list[f] = [st.list[f] EXCEPT ![M] = @ \cup More]
  BY DEF AddTx
<1>4. new.rel[f][T][g] = IF <<f, g>> \in edges THEN Forward(st.rel, T, f, g, p)
                         ELSE IF Inverts(g, f) THEN Opposite(st.rel, T, g, f, p, q)
                         ELSE st.rel[f][T][g]
  BY <1>1 DEF AddTx
<1> HIDE DEF new, M
<1>5. ASSUME NEW L \in Lists
      PROVE  st.list[f][L] \subseteq new.list[f][L]
  BY <1>1, <1>3
<1>6. g \in More => g \in new.list[f][M]
  BY <1>1, <1>2, <1>3
<1>7. ASSUME new.rel[f][T][g] # <<>>, st.rel[f][T][g] = <<>>
      PROVE  Touches(edges, f, g) /\ g \in More
  <2>1. CASE <<f, g>> \in edges
    <3>1. ~InUse(st.rel[f][T][g], p)
      BY <1>7, InUseNotEmpty
    <3> QED
      BY <2>1, <3>1 DEF Touches
  <2>2. CASE <<f, g>> \notin edges /\ Inverts(g, f)
    <3>1. Opposite(st.rel, T, g, f, p, q) # <<>>
      BY <1>4, <1>7, <2>2
    <3>2. ~InUse(st.rel[g][T][f], p)
      BY <1>1, <1>7, <3>1, OppositeOfOld
    <3> QED
      BY <2>2, <3>2 DEF Touches
  <2>3. CASE <<f, g>> \notin edges /\ ~Inverts(g, f)
    BY <1>4, <1>7, <2>3
  <2> QED
    BY <2>1, <2>2, <2>3
<1> QED
  BY <1>5, <1>6, <1>7 DEF new, M

LEMMA AddTxListed ==
  ASSUME NEW st, NEW edges, NEW T \in Types, NEW p \in PropertySet, NEW q, StoreOK(st),
         NEW there, NEW known, NEW more, Listed(st, there, known),
         known \subseteq more, edges \subseteq more \X more
  PROVE  Listed(AddTx(st, edges, T, p, q), there, more)
<1> DEFINE new == AddTx(st, edges, T, p, q)
<1>1. ASSUME NEW f \in Files, NEW g \in Files
      PROVE  /\ \A L \in Lists : st.list[f][L] \subseteq new.list[f][L]
             /\ new.rel[f][T][g] # <<>> =>
                  st.rel[f][T][g] # <<>> \/ (Touches(edges, f, g) /\ g \in new.list[f][ListAttrFor(T)])
  BY AddTxLists
<1>2. ASSUME NEW f \in Files, NEW U \in Types, NEW g \in Files, U # T
      PROVE  new.rel[f][U][g] = st.rel[f][U][g]
  BY <1>2, AddTxRest
<1> HIDE DEF new
<1>3. ASSUME NEW U \in Types, OwnList(U), NEW f \in Files, NEW g \in Files, new.rel[f][U][g] # <<>>
      PROVE  g \in new.list[f][ListAttrFor(U)]
  <2>1. CASE st.rel[f][U][g] # <<>>
    <3>1. g \in st.list[f][ListAttrFor(U)]
      BY <1>3, <2>1 DEF Listed, TargetsListed
    <3> QED
      BY <1>1, <3>1, ListAttrIsList
  <2>2. CASE st.rel[f][U][g] = <<>>
    <3>1. U = T
      BY <1>2, <1>3, <2>2
    <3> QED
      BY <1>1, <1>3, <2>2, <3>1
  <2> QED
    BY <2>1, <2>2
<1>4. ASSUME NEW U \in Types, NEW f \in Files, NEW g \in Files, new.rel[f][U][g] # <<>>
      PROVE  f \in more /\ (g \in there => g \in more)
  <2>1. CASE st.rel[f][U][g] # <<>>
    BY <2>1 DEF Listed, HaveIds
  <2>2. CASE st.rel[f][U][g] = <<>>
    <3>1. U = T
      BY <1>2, <1>4, <2>2
    <3>2. Touches(edges, f, g)
      BY <1>1, <1>4, <2>2, <3>1
    <3> QED
      BY <3>2 DEF Touches
  <2> QED
    BY <2>1, <2>2
<1> QED
  BY <1>3, <1>4 DEF Listed, TargetsListed, HaveIds, new

\* A pair whose directions were there before stays listed while it is there.
LEMMA StorePairListed ==
  ASSUME NEW st, NEW T \in Types, NEW s \in Files, NEW t \in Files, NEW forward, NEW inverse,
         StoreOK(st), NEW there, NEW known, Listed(st, there, known),
         forward # <<>> => st.rel[s][T][t] # <<>>,
         inverse # <<>> => st.rel[t][T][s] # <<>>
  PROVE  Listed(StorePair(st, T, s, t, forward, inverse), there, known)
<1> DEFINE new == StorePair(st, T, s, t, forward, inverse)
           L == ListAttrFor(T)
           found == s # t /\ st.rel[t][T][s] # <<>>
           Pair(f, g) == IF f = s /\ g = t THEN forward ELSE IF f = t /\ g = s THEN inverse ELSE st.rel[f][T][g]
           Left(f) == IF f = s THEN Unlisted(st.list[f][L], t, forward)
                      ELSE IF f = t /\ found THEN Unlisted(st.list[f][L], s, inverse) ELSE st.list[f][L]
<1>1. /\ st.rel \in [Files -> [Types -> [Files -> Seq(PropertySet)]]]
      /\ st.list \in [Files -> [Lists -> SUBSET Files]]
  BY DEF StoreOK
<1>2. L \in Lists
  BY ListAttrIsList
<1>3. ASSUME NEW f \in Files, NEW g \in Files
      PROVE  new.rel[f][T][g] = Pair(f, g)
  BY <1>1 DEF StorePair
<1>4. ASSUME NEW f \in Files, NEW U \in Types, NEW g \in Files, U # T
      PROVE  new.rel[f][U][g] = st.rel[f][U][g]
  BY <1>1, <1>4 DEF StorePair
<1>5. ASSUME NEW f \in Files
      PROVE  new.list[f][L] = Left(f)
  BY <1>1, <1>2 DEF StorePair
<1>6. ASSUME NEW f \in Files, NEW K \in Lists, K # L
      PROVE  new.list[f][K] = st.list[f][K]
  BY <1>1, <1>6 DEF StorePair
<1> HIDE DEF new, L
<1>7. NothingAdded(st, new)
  <2> SUFFICES ASSUME NEW f \in Files, NEW g \in Files, NEW U \in Types, new.rel[f][U][g] # <<>>
               PROVE  st.rel[f][U][g] # <<>>
    BY DEF NothingAdded
  <2>1. CASE U = T
    BY <1>3, <2>1
  <2>2. CASE U # T
    BY <1>4, <2>2
  <2> QED
    BY <2>1, <2>2
<1>8. ASSUME NEW U \in Types, OwnList(U), NEW f \in Files, NEW g \in Files, new.rel[f][U][g] # <<>>
      PROVE  g \in new.list[f][ListAttrFor(U)]
  <2>1. g \in st.list[f][ListAttrFor(U)]
    BY <1>7, <1>8 DEF NothingAdded, Listed, TargetsListed
  <2>2. CASE U = T
    <3>1. Pair(f, g) # <<>> /\ g \in st.list[f][L]
      BY <1>3, <1>8, <2>1, <2>2 DEF L
    <3>2. g \in Left(f)
      BY <3>1 DEF Unlisted
    <3> QED
      BY <1>5, <2>2, <3>2 DEF L
  <2>3. CASE U # T
    <3>1. ListAttrFor(U) # L
      BY <1>8, <2>3 DEF OwnList, L
    <3> QED
      BY <1>6, <2>1, <3>1, ListAttrIsList
  <2> QED
    BY <2>2, <2>3
<1> QED
  BY <1>7, <1>8, NothingAddedIds DEF Listed, TargetsListed, new

LEMMA RemoveOneListed ==
  ASSUME NEW st, NEW s \in Files, NEW T \in Types, NEW t \in Files, StoreOK(st),
         NEW i \in DOMAIN st.rel[s][T][t], NEW there, NEW known, Listed(st, there, known)
  PROVE  Listed(RemoveOne(st, s, T, t, i), there, known)
<1> DEFINE rid == st.rel[s][T][t][i].rid
           inverse == st.rel[t][T][s]
           left == IF FindsInverse(s, t) THEN InverseWithout(inverse, rid) ELSE inverse
           forward == RemoveSet(st.rel[s][T][t], i)
<1>1. st.rel[s][T][t] # <<>>
  OBVIOUS
<1>2. left # <<>> => inverse # <<>>
  <2> HIDE DEF inverse, rid
  <2>1. CASE FindSet(inverse, rid) = {}
    BY <2>1 DEF InverseWithout
  <2>2. CASE FindSet(inverse, rid) # {}
    BY <2>2 DEF FindSet
  <2> QED
    BY <2>1, <2>2
<1>3. RemoveOne(st, s, T, t, i) = StorePair(st, T, s, t, forward, left)
  BY DEF RemoveOne
<1> HIDE DEF left, forward
<1>4. Listed(StorePair(st, T, s, t, forward, left), there, known)
  BY <1>1, <1>2, StorePairListed DEF inverse
<1> QED
  BY <1>3, <1>4

LEMMA ReplaceListed ==
  ASSUME NEW st, NEW s \in Files, NEW T \in Types, NEW t \in Files, StoreOK(st),
         NEW i \in DOMAIN st.rel[s][T][t], NEW p, NEW there, NEW known, Listed(st, there, known)
  PROVE  Listed(Replace(st, s, T, t, i, p), there, known)
<1> DEFINE rid == st.rel[s][T][t][i].rid
           inverse == st.rel[t][T][s]
           left == IF FindsInverse(s, t) THEN ReplaceInverse(T, inverse, rid, p) ELSE inverse
           forward == ReplaceSet(st.rel[s][T][t], i, p)
<1>1. st.rel[s][T][t] # <<>>
  OBVIOUS
<1>2. left # <<>> => inverse # <<>>
  <2> HIDE DEF inverse, rid
  <2>1. CASE FindSet(inverse, rid) = {}
    BY <2>1 DEF ReplaceInverse
  <2>2. CASE FindSet(inverse, rid) # {}
    BY <2>2 DEF FindSet
  <2> QED
    BY <2>1, <2>2
<1>3. Replace(st, s, T, t, i, p) = StorePair(st, T, s, t, forward, left)
  BY DEF Replace
<1> HIDE DEF left, forward
<1>4. Listed(StorePair(st, T, s, t, forward, left), there, known)
  BY <1>1, <1>2, StorePairListed DEF inverse
<1> QED
  BY <1>3, <1>4

LEMMA RemoveWholeListed ==
  ASSUME NEW st, NEW s \in Files, NEW gone \in SUBSET (Types \X Files), StoreOK(st),
         NEW there, NEW known, Listed(st, there, known)
  PROVE  Listed(RemoveWhole(st, s, gone), there, known)
<1> DEFINE new == RemoveWhole(st, s, gone)
           Inverts(T, f) == <<T, f>> \in gone /\ FindsInverse(s, f)
           Goes(f, T, g) == (f = s /\ <<T, g>> \in gone) \/ (g = s /\ Inverts(T, f))
<1>1. ASSUME NEW f \in Files, NEW T \in Types, NEW g \in Files
      PROVE  new.rel[f][T][g] = IF Goes(f, T, g) THEN <<>> ELSE st.rel[f][T][g]
  BY DEF RemoveWhole
<1>2. NothingAdded(st, new)
  BY <1>1 DEF NothingAdded
<1>3. ASSUME NEW T \in Types, OwnList(T), NEW f \in Files, NEW g \in Files, new.rel[f][T][g] # <<>>
      PROVE  g \in new.list[f][ListAttrFor(T)]
  <2> DEFINE L == ListAttrFor(T)
  <2>1. g \in st.list[f][L]
    BY <1>2, <1>3 DEF NothingAdded, Listed, TargetsListed
  <2>2. ~Goes(f, T, g)
    BY <1>1, <1>3
  <2>3. \A U \in Types : ListAttrFor(U) = L => U = T
    BY <1>3 DEF OwnList
  <2>4. L \in Lists
    BY ListAttrIsList
  <2> HIDE DEF L
  <2>5. CASE f = s
    <3>1. new.list[f][L] =
            st.list[f][L] \ {h \in Files : \E U \in Types : ListAttrFor(U) = L /\ <<U, h>> \in gone}
      BY <2>4, <2>5 DEF RemoveWhole
    <3>2. <<T, g>> \notin gone
      BY <2>2, <2>5
    <3> QED
      BY <2>1, <2>3, <3>1, <3>2 DEF L
  <2>6. CASE f # s
    <3>1. \/ new.list[f][L] = st.list[f][L]
          \/ /\ \E U \in Types : ListAttrFor(U) = L /\ Inverts(U, f)
             /\ new.list[f][L] = st.list[f][L] \ {s}
      BY <2>4, <2>6 DEF RemoveWhole
    <3> HIDE DEF new
    <3>2. CASE g = s
      <4>1. ~Inverts(T, f)
        BY <2>2, <3>2
      <4> QED
        BY <2>1, <2>3, <3>1, <4>1 DEF L
    <3>3. CASE g # s
      BY <2>1, <3>1, <3>3 DEF L
    <3> QED
      BY <3>2, <3>3
  <2> QED
    BY <2>5, <2>6
<1> QED
  BY <1>2, <1>3, NothingAddedIds DEF Listed, TargetsListed, new

\* Attributes that are stored with the ids that the request gave.
LEMMA CommitListed ==
  ASSUME NEW st, Listed(st, files, ids'), Commit(st), UNCHANGED files
  PROVE  Listed(Store, files, ids)'
BY DEF Commit, Listed, TargetsListed, HaveIds, Store

LEMMA MoreIdsListed ==
  ASSUME NEW st, NEW there, NEW known, NEW more, Listed(st, there, known), known \subseteq more
  PROVE  Listed(st, there, more)
BY DEF Listed, HaveIds

LEMMA StaysListed ==
  ASSUME ListedInv, UNCHANGED attributes, UNCHANGED files, ids \subseteq ids'
  PROVE  Listed(Store, files, ids)'
BY DEF ListedInv, Listed, TargetsListed, HaveIds, Store, attributes

LEMMA AddRelationListed ==
  ASSUME ListedInv, NEW source \in Files, NEW target \in Files, NEW T \in Types,
         NEW p \in Inputs, NEW sender \in Senders, NEW own \in OwnLabels,
         AddRelation(source, target, T, p, sender, own)
  PROVE  Listed(Store, files, ids)'
<1> DEFINE s     == IF Swaps(T, source, target) THEN target ELSE source
           t     == IF Swaps(T, source, target) THEN source ELSE target
           made  == StickyIds(T, p)
           added == AddedProperties(T, p, sender)
           new   == AddTx(Store, {<<s, t>>}, T, added, AddedInverse(T, added, own))
<1>1. UNCHANGED files
  BY DEF AddRelation
<1>2. \/ Commit(new) /\ ids' = ids \cup {s, t} \cup made
      \/ Fail(made, s, t)
  BY DEF AddRelation
<1>3. added \in PropertySet
  BY AddedPropertiesType DEF ListedInv
<1> HIDE DEF s, t, made, added
<1>4. CASE Commit(new) /\ ids' = ids \cup {s, t} \cup made
  <2>1. ids \subseteq ids' /\ {<<s, t>>} \subseteq ids' \X ids'
    BY <1>4
  <2>2. StoreOK(Store) /\ Listed(Store, files, ids)
    BY DEF ListedInv, RelationsInv
  <2>3. Listed(new, files, ids')
    BY <1>3, <2>1, <2>2, AddTxListed
  <2> QED
    BY <1>1, <1>4, <2>3, CommitListed
<1>5. CASE Fail(made, s, t)
  BY <1>1, <1>5, StaysListed DEF Fail
<1> QED
  BY <1>2, <1>4, <1>5

LEMMA RemoveRelationListed ==
  ASSUME ListedInv, NEW s \in Files, NEW T \in Types, NEW t \in Files, NEW rid, NEW mode,
         RemoveRelation(s, T, t, rid, mode)
  PROVE  Listed(Store, files, ids)'
<1>1. PICK i \in Addressed(rel[s][T][t], rid, mode = "override") : Commit(RemoveOne(Store, s, T, t, i))
  BY DEF RemoveRelation
<1>2. i \in DOMAIN Store.rel[s][T][t]
  BY AddressedIsThere DEF Store
<1>3. Listed(RemoveOne(Store, s, T, t, i), files, ids)
  BY <1>2, RemoveOneListed DEF ListedInv, RelationsInv
<1>4. UNCHANGED <<files, ids>>
  BY DEF RemoveRelation
<1> QED
  BY <1>1, <1>3, <1>4, CommitListed

LEMMA RemoveWholeRequestListed ==
  ASSUME ListedInv, NEW s \in Files, NEW gone \in SUBSET (Types \X Files),
         Commit(RemoveWhole(Store, s, gone)), UNCHANGED <<files, ids>>
  PROVE  Listed(Store, files, ids)'
<1>1. Listed(RemoveWhole(Store, s, gone), files, ids)
  BY RemoveWholeListed DEF ListedInv, RelationsInv
<1> QED
  BY <1>1, CommitListed

LEMMA RemoveRelationAllSetsListed ==
  ASSUME ListedInv, NEW s \in Files, NEW T \in Types, NEW t \in Files, NEW mode,
         RemoveRelationAllSets(s, T, t, mode)
  PROVE  Listed(Store, files, ids)'
BY RemoveWholeRequestListed DEF RemoveRelationAllSets

LEMMA RemoveAllRelationsListed ==
  ASSUME ListedInv, NEW s \in Files, NEW types \in SUBSET Types, NEW mode,
         RemoveAllRelations(s, types, mode)
  PROVE  Listed(Store, files, ids)'
<1> DEFINE gone == {k \in types \X Files : /\ RemovesAll(rel[s][k[1]][k[2]], mode)
                                           /\ mode = "stale" => Stale(rel[s][k[1]][k[2]], k[2])}
<1>1. gone \in SUBSET (Types \X Files)
  OBVIOUS
<1>2. Commit(RemoveWhole(Store, s, gone)) /\ UNCHANGED <<files, ids>>
  BY DEF RemoveAllRelations
<1> HIDE DEF gone
<1> QED
  BY <1>1, <1>2, RemoveWholeRequestListed

\* Where a relation moves to it is listed before the old place loses it.
LEMMA UpdateRelationListed ==
  ASSUME ListedInv, NEW s \in Files, NEW T \in Types, NEW t \in Files, NEW rid,
         NEW properties \in Updates, NEW newTarget \in Files \cup {NoFile},
         NEW newType \in Types \cup {NoType}, NEW mode,
         UpdateRelation(s, T, t, rid, properties, newTarget, newType, mode)
  PROVE  Listed(Store, files, ids)'
<1> DEFINE to == IF newTarget = NoFile THEN t ELSE newTarget
           U  == IF newType = NoType THEN T ELSE newType
           Replaced(i) == IF properties = NoProperties THEN Store ELSE Replace(Store, s, T, t, i, properties)
           set(i)   == WithoutId(Replaced(i).rel[s][T][t][i])
           Added(i) == AddTx(Replaced(i), {<<s, to>>}, U, set(i), InverseProperties(U, set(i)))
<1>1. to \in Files /\ U \in Types
  OBVIOUS
<1>2. UNCHANGED files
  BY DEF UpdateRelation
<1>3. PICK i \in Addressed(rel[s][T][t], rid, mode = "override") :
        \/ Commit(Replaced(i)) /\ UNCHANGED ids
        \/ /\ to # t \/ U # T
           /\ FitsBounds(Added(i))
           /\ Commit(RemoveOne(Added(i), s, T, t, i))
           /\ ids' = ids \cup {s, to}
        \/ Fail({}, s, to)
  BY DEF UpdateRelation
<1> HIDE DEF to, U
<1>4. i \in DOMAIN Store.rel[s][T][t]
  BY AddressedIsThere DEF Store
<1>5. /\ StoreOK(Replaced(i)) /\ i \in DOMAIN Replaced(i).rel[s][T][t]
      /\ Listed(Replaced(i), files, ids)
  <2>1. CASE properties = NoProperties
    BY <1>4, <2>1 DEF ListedInv, RelationsInv
  <2>2. CASE properties # NoProperties
    <3>1. properties \in PropertySet
      BY <2>2, SentAssumption DEF Sent
    <3>2. /\ StoreOK(Replace(Store, s, T, t, i, properties))
          /\ Replace(Store, s, T, t, i, properties).rel[s][T][t] = ReplaceSet(Store.rel[s][T][t], i, properties)
      BY <1>4, <3>1, ReplaceOK DEF ListedInv, RelationsInv
    <3>3. Listed(Replace(Store, s, T, t, i, properties), files, ids)
      BY <1>4, ReplaceListed DEF ListedInv, RelationsInv
    <3> QED
      BY <1>4, <2>2, <3>2, <3>3 DEF ReplaceSet
  <2> QED
    BY <2>1, <2>2
<1>6. set(i) \in PropertySet
  <2>1. WellKept(Replaced(i).rel[s][T][t])
    BY <1>5 DEF StoreOK
  <2>2. Replaced(i).rel[s][T][t][i] \in PropertySet
    BY <1>5, <2>1, ElementOfSeq, LenProperties DEF WellKept
  <2> QED
    BY <2>2, WithoutIdType
<1> HIDE DEF Replaced, set
<1>7. CASE Commit(Replaced(i)) /\ UNCHANGED ids
  BY <1>2, <1>5, <1>7, CommitListed
<1>8. CASE /\ to # t \/ U # T
           /\ FitsBounds(Added(i))
           /\ Commit(RemoveOne(Added(i), s, T, t, i))
           /\ ids' = ids \cup {s, to}
  <2>1. {<<s, to>>} \in SUBSET (Files \X Files) /\ InverseProperties(U, set(i)) \in PropertySet
    BY <1>1, <1>6, InversePropertiesType
  <2>2. StoreOK(Added(i))
    BY <1>1, <1>5, <1>6, <1>8, <2>1, AddTxOK
  <2>3. Added(i).rel[s][T][t] = Replaced(i).rel[s][T][t]
    <3>1. T # U \/ ~Touches({<<s, to>>}, s, t)
      BY <1>8 DEF Touches
    <3> QED
      BY <1>1, <1>5, <3>1, AddTxRest
  <2>4. Listed(Added(i), files, ids')
    <3>1. ids \subseteq ids' /\ {<<s, to>>} \subseteq ids' \X ids'
      BY <1>8
    <3> QED
      BY <1>1, <1>5, <1>6, <3>1, AddTxListed
  <2> HIDE DEF Added
  <2>5. Listed(RemoveOne(Added(i), s, T, t, i), files, ids')
    BY <1>5, <2>2, <2>3, <2>4, RemoveOneListed
  <2> QED
    BY <1>2, <1>8, <2>5, CommitListed
<1>9. CASE Fail({}, s, to)
  BY <1>2, <1>9, StaysListed DEF Fail
<1> QED
  BY <1>3, <1>7, <1>8, <1>9

LEMMA ApplyStickyListed ==
  ASSUME ListedInv, NEW new \in SUBSET Files, ApplySticky(new)
  PROVE  Listed(Store, files, ids)'
<1> DEFINE edges == new \X StickyClassifications
           st    == AddTx(Store, edges, Association, Plain, InverseProperties(Association, Plain))
<1>1. Association \in Types /\ UNCHANGED files
  BY DEF ApplySticky
<1>2. Plain \in PropertySet
  BY DEF Plain, PropertySet, Labels
<1>3. \/ Commit(st) /\ ids' = ids \cup new \cup StickyClassifications
      \/ /\ ids' \in {ids \cup (made \cap files) : made \in SUBSET (new \cup StickyClassifications)}
         /\ UNCHANGED attributes
  BY DEF ApplySticky
<1>4. CASE Commit(st) /\ ids' = ids \cup new \cup StickyClassifications
  <2>1. ids \subseteq ids' /\ edges \subseteq ids' \X ids'
    BY <1>4
  <2> HIDE DEF edges
  <2>2. Listed(st, files, ids')
    BY <1>1, <1>2, <2>1, AddTxListed DEF ListedInv, RelationsInv
  <2> QED
    BY <1>1, <1>4, <2>2, CommitListed
<1>5. CASE /\ ids' \in {ids \cup (made \cap files) : made \in SUBSET (new \cup StickyClassifications)}
           /\ UNCHANGED attributes
  BY <1>1, <1>5, StaysListed
<1> QED
  BY <1>3, <1>4, <1>5

\* With a file its relations go; who still has one to it keeps its own id.
LEMMA DeleteFileListed ==
  ASSUME ListedInv, NEW d \in Files, DeleteFile(d)
  PROVE  Listed(Store, files, ids)'
<1>1. /\ rel \in [Files -> [Types -> [Files -> Seq(PropertySet)]]]
      /\ list \in [Files -> [Lists -> SUBSET Files]]
  BY DEF ListedInv, RelationsInv, StoreOK, Store
<1>2. /\ rel' = [rel EXCEPT ![d] = [T \in Types |-> [g \in Files |-> <<>>]]]
      /\ list' = [list EXCEPT ![d] = [L \in Lists |-> {}]]
      /\ files' = files \ {d} /\ ids' = ids \ {d}
  BY DEF DeleteFile
<1>3. \A f, g \in Files, T \in Types : rel'[f][T][g] = IF f = d THEN <<>> ELSE rel[f][T][g]
  BY <1>1, <1>2
<1>4. ASSUME NEW T \in Types, OwnList(T), NEW f \in Files, NEW g \in Files, rel'[f][T][g] # <<>>
      PROVE  g \in list'[f][ListAttrFor(T)]
  <2>1. f # d /\ rel[f][T][g] # <<>>
    BY <1>3, <1>4
  <2>2. g \in list[f][ListAttrFor(T)]
    BY <1>4, <2>1 DEF ListedInv, Listed, TargetsListed, Store
  <2> QED
    BY <1>1, <1>2, <2>1, <2>2
<1>5. ASSUME NEW T \in Types, NEW f \in Files, NEW g \in Files, rel'[f][T][g] # <<>>
      PROVE  f \in ids' /\ (g \in files' => g \in ids')
  <2>1. f # d /\ rel[f][T][g] # <<>>
    BY <1>3, <1>5
  <2>2. f \in ids /\ (g \in files => g \in ids)
    BY <2>1 DEF ListedInv, Listed, HaveIds, Store
  <2> QED
    BY <1>2, <2>1, <2>2
<1> QED
  BY <1>4, <1>5 DEF Listed, TargetsListed, HaveIds, Store

LEMMA InitListedInv == Init => ListedInv
<1> SUFFICES ASSUME Init PROVE ListedInv
  OBVIOUS
<1>1. \A f, g \in Files, T \in Types : Store.rel[f][T][g] = <<>>
  BY DEF Init, Store
<1> QED
  BY <1>1, InitRelationsInv DEF ListedInv, Listed, TargetsListed, HaveIds

LEMMA NextListedInv == ListedInv /\ [Next]_vars => ListedInv'
<1> SUFFICES ASSUME ListedInv, [Next]_vars
             PROVE  Listed(Store, files, ids)'
  BY NextRelationsInv DEF ListedInv
<1>1. ASSUME NEW s \in Files, NEW t \in Files, NEW T \in Types,
             \E p \in Inputs, sender \in Senders, own \in OwnLabels : AddRelation(s, t, T, p, sender, own)
      PROVE  Listed(Store, files, ids)'
  BY <1>1, AddRelationListed
<1>2. ASSUME NEW s \in Files, NEW t \in Files, NEW T \in Types,
             \E rid \in RequestIds(s, T, t), mode \in OneModes : RemoveRelation(s, T, t, rid, mode)
      PROVE  Listed(Store, files, ids)'
  BY <1>2, RemoveRelationListed
<1>3. ASSUME NEW s \in Files, NEW t \in Files, NEW T \in Types,
             \E mode \in OneModes : RemoveRelationAllSets(s, T, t, mode)
      PROVE  Listed(Store, files, ids)'
  BY <1>3, RemoveRelationAllSetsListed
<1>4. ASSUME NEW s \in Files, NEW t \in Files, NEW T \in Types,
             NEW rid \in RequestIds(s, T, t), NEW p \in Updates, NEW to \in Files \cup {NoFile},
             NEW mode \in OneModes, NEW U \in Types \cup (IF to = NoFile THEN {NoType} ELSE {}),
             UpdateRelation(s, T, t, rid, p, to, U, mode)
      PROVE  Listed(Store, files, ids)'
  <2>1. U \in Types \cup {NoType}
    OBVIOUS
  <2> QED
    BY <1>4, <2>1, UpdateRelationListed
<1>5. ASSUME NEW s \in Files, NEW types \in {Types} \cup {{T} : T \in Types}, NEW mode \in RemoveModes,
             RemoveAllRelations(s, types, mode)
      PROVE  Listed(Store, files, ids)'
  <2>1. types \in SUBSET Types
    OBVIOUS
  <2> QED
    BY <1>5, <2>1, RemoveAllRelationsListed
<1>6. ASSUME NEW new \in SUBSET Files, ApplySticky(new)
      PROVE  Listed(Store, files, ids)'
  BY <1>6, ApplyStickyListed
<1>7. ASSUME NEW f \in Files, ToggleSticky(f) \/ DeleteFile(f) \/ CopyFile(f) \/ FindCopy(f)
      PROVE  Listed(Store, files, ids)'
  <2>1. CASE DeleteFile(f)
    BY <2>1, DeleteFileListed
  <2>2. CASE ToggleSticky(f) \/ CopyFile(f) \/ FindCopy(f)
    BY <2>2, StaysListed DEF ToggleSticky, CopyFile, FindCopy, attributes
  <2> QED
    BY <1>7, <2>1, <2>2
<1>8. CASE UNCHANGED vars
  BY <1>8, StaysListed DEF vars, attributes
<1>9. ASSUME NEW s \in Files, NEW t \in Files, NEW T \in Types,
             \E rid \in RequestIds(s, T, t), p \in Updates, to \in Files \cup {NoFile}, mode \in OneModes :
               \E U \in Types \cup (IF to = NoFile THEN {NoType} ELSE {}) :
                 UpdateRelation(s, T, t, rid, p, to, U, mode)
      PROVE  Listed(Store, files, ids)'
  BY <1>4, <1>9, Zenon
<1> QED
  BY <1>1, <1>2, <1>3, <1>5, <1>6, <1>7, <1>8, <1>9, Zenon DEF Next

\* The strengthening holds in every state.
THEOREM ListedInvariant == Spec => []ListedInv
BY InitListedInv, NextListedInv, PTL DEF Spec

\* Whatever clients, users and failures do, the classifications of a file are
\* in its SEN:META, which no other type uses.
THEOREM ClassificationsAreAlwaysListed ==
  Spec => [](Association \in Types =>
               \A f, g \in Files : Related(f, Association, g) => g \in list[f]["SEN:META"])
<1>1. /\ OwnList(Association)
      /\ ListAttrFor(Association) = "SEN:META"
  BY DEF OwnList, ListAttrFor, IsMetaRelation
<1>2. ListedInv => (Association \in Types =>
        \A f, g \in Files : Related(f, Association, g) => g \in list[f]["SEN:META"])
  BY <1>1 DEF ListedInv, Listed, TargetsListed, Related, Store
<1> QED
  BY <1>2, ListedInvariant, PTL

\* No two types use the same list.
NoSharedList == \A T \in Types : OwnList(T)

\* The targets of a file are in its list, where no list is that of two types.
THEOREM RelatedAreAlwaysListed ==
  ASSUME NoSharedList
  PROVE  Spec => []RelatedAreListed
<1>1. ListedInv => RelatedAreListed
  BY NoSharedList DEF NoSharedList, ListedInv, Listed, TargetsListed, RelatedAreListed, Related, Store
<1> QED
  BY <1>1, ListedInvariant, PTL

-----------------------------------------------------------------------------
(* What clients are told *)

LEMMA ConcatNotEmpty ==
  ASSUME NEW S, NEW R, NEW a \in Seq(S), NEW b \in Seq(R), a # <<>> \/ b # <<>>
  PROVE  a \o b # <<>>
<1>1. a \in Seq(S \cup R) /\ b \in Seq(S \cup R)
  OBVIOUS
<1>2. Len(a) \in Nat /\ Len(b) \in Nat /\ (Len(a) # 0 \/ Len(b) # 0)
  BY LenProperties, EmptySeq
<1>3. Len(a \o b) = Len(a) + Len(b)
  BY <1>1, ConcatProperties
<1> QED
  BY <1>2, <1>3

\* The sets that point to f are shown one by one, if their file lists f.
LEMMA ReverseSets ==
  ASSUME RelationsInv, NEW T \in Types, NEW f \in Files, NEW g \in Files
  PROVE  \E S : /\ ReverseRelations(f, T)[g] \in Seq(S)
                /\ g \in Pointing(f, ListAttrFor(T)) \cap ids /\ rel[g][T][f] # <<>> =>
                     ReverseRelations(f, T)[g] # <<>>
<1>1. rel[g][T][f] \in Seq(PropertySet)
  BY DEF RelationsInv, StoreOK, Store
<1>2. DOMAIN rel[g][T][f] = 1 .. Len(rel[g][T][f]) /\ Len(rel[g][T][f]) \in Nat
  BY <1>1, LenProperties
<1>3. rel[g][T][f] # <<>> => Len(rel[g][T][f]) # 0
  BY <1>1, EmptySeq
<1>4. CASE g \in Pointing(f, ListAttrFor(T)) \cap ids
  <2> DEFINE Shown(i) == IF InverseLabel[T] = NoLabel THEN rel[g][T][f][i]
                         ELSE [rel[g][T][f][i] EXCEPT !.label = InverseLabel[T]]
             shown == [i \in 1 .. Len(rel[g][T][f]) |-> Shown(i)]
             All == {Shown(i) : i \in 1 .. Len(rel[g][T][f])}
  <2>1. ReverseRelations(f, T)[g] = shown
    BY <1>2, <1>4 DEF ReverseRelations
  <2>2. shown \in [1 .. Len(rel[g][T][f]) -> All] /\ DOMAIN shown = 1 .. Len(rel[g][T][f])
    BY DEF All
  <2> HIDE DEF shown, All
  <2>3. shown \in Seq(All)
    BY <1>2, <2>2, SeqDef
  <2>4. Len(shown) = Len(rel[g][T][f])
    BY <1>2, <2>2, <2>3, LenProperties
  <2>5. rel[g][T][f] # <<>> => shown # <<>>
    BY <1>3, <2>4
  <2> QED
    BY <2>1, <2>3, <2>5
<1>5. CASE g \notin Pointing(f, ListAttrFor(T)) \cap ids
  <2>1. ReverseRelations(f, T)[g] = <<>>
    BY <1>5 DEF ReverseRelations
  <2>2. <<>> \in Seq(PropertySet)
    OBVIOUS
  <2> QED
    BY <1>5, <2>1, <2>2
<1> QED
  BY <1>4, <1>5

\* What a file stores is told.
LEMMA StoredIsRead ==
  ASSUME RelationsInv, NEW T \in Types, NEW f \in files, NEW g \in Files, rel[f][T][g] # <<>>
  PROVE  RelationsOfType(f, T)[g] # <<>>
<1> DEFINE reverse == IF T \in Bidirectional THEN <<>> ELSE ReverseRelations(f, T)[g]
<1>1. f \in Files
  BY DEF RelationsInv, FilesOK
<1>2. rel[f][T][g] \in Seq(PropertySet)
  BY <1>1 DEF RelationsInv, StoreOK, Store
<1>3. RelationsOfType(f, T)[g] = rel[f][T][g] \o reverse
  BY DEF RelationsOfType, ReadRelations
<1>4. \E S : reverse \in Seq(S)
  <2>1. <<>> \in Seq(PropertySet)
    OBVIOUS
  <2>2. \E S : ReverseRelations(f, T)[g] \in Seq(S)
    BY <1>1, ReverseSets
  <2> QED
    BY <2>1, <2>2
<1> HIDE DEF reverse
<1> QED
  BY <1>2, <1>3, <1>4, ConcatNotEmpty

\* A relation of g to f is among those that point to f.
LEMMA ReverseIsRead ==
  ASSUME ListedInv, NEW T \in Types, OwnList(T), T \notin Bidirectional,
         NEW f \in files, NEW g \in files, rel[g][T][f] # <<>>
  PROVE  RelationsOfType(f, T)[g] # <<>>
<1>1. RelationsInv /\ f \in Files /\ g \in Files
  BY DEF ListedInv, RelationsInv, FilesOK
<1>2. CASE f = g
  BY <1>1, <1>2, StoredIsRead
<1>3. CASE f # g
  <2>1. g \in ids /\ f \in ids /\ f \in list[g][ListAttrFor(T)]
    BY <1>1 DEF ListedInv, Listed, TargetsListed, HaveIds, Store
  <2>2. g \in Pointing(f, ListAttrFor(T)) \cap ids
    BY <1>3, <2>1 DEF Pointing
  <2>3. PICK S : ReverseRelations(f, T)[g] \in Seq(S) /\ ReverseRelations(f, T)[g] # <<>>
    BY <1>1, <2>2, ReverseSets
  <2>4. RelationsOfType(f, T)[g] = rel[f][T][g] \o ReverseRelations(f, T)[g]
    BY <1>1 DEF RelationsOfType, ReadRelations
  <2>5. rel[f][T][g] \in Seq(PropertySet)
    BY <1>1 DEF RelationsInv, StoreOK, Store
  <2> QED
    BY <2>3, <2>4, <2>5, ConcatNotEmpty
<1> QED
  BY <1>2, <1>3

\* A relation that is only stored at its source is shown at its target, too.
THEOREM PointedAtIsAlwaysShown ==
  ASSUME NoSharedList
  PROVE  Spec => []PointedAtIsShown
<1>1. ListedInv => PointedAtIsShown
  BY NoSharedList, ReverseIsRead DEF NoSharedList, PointedAtIsShown, HasSets
<1> QED
  BY <1>1, ListedInvariant, PTL

\* A type that is offered for a file shows a relation.
LEMMA OfferedHasTarget ==
  ASSUME ListedInv, NEW T \in Types, OwnList(T), T \notin Dynamic,
         NEW f \in files, T \in AllRelations(f)
  PROVE  \E g \in Files : RelationsOfType(f, T)[g] # <<>>
<1>1. f \in Files
  BY DEF ListedInv, RelationsInv, FilesOK
<1>2. CASE T \in StoredTypes(f)
  <2>1. PICK g \in Files : rel[f][T][g] # <<>>
    BY <1>2 DEF StoredTypes, HasSets
  <2> QED
    BY <2>1, StoredIsRead DEF ListedInv
<1>3. CASE T \notin Bidirectional /\ HasReverse(f, T)
  <2>1. PICK g \in files : f \in list[g][ListAttrFor(T)]
    BY <1>3 DEF HasReverse, Pointing
  <2>2. g \in Files
    BY DEF ListedInv, RelationsInv, FilesOK
  <2>3. PICK U \in Types : ListAttrFor(U) = ListAttrFor(T) /\ rel[g][U][f] # <<>>
    BY <1>1, <2>1, <2>2, ListAttrIsList DEF ListedInv, RelationsInv, StoreOK, Store
  <2>4. rel[g][T][f] # <<>>
    BY <2>3 DEF OwnList
  <2> QED
    BY <1>3, <2>2, <2>4, ReverseIsRead
<1> QED
  BY <1>2, <1>3 DEF AllRelations

\* Of several files, the targets of each that answers are among those told.
LEMMA SelectionHasTarget ==
  ASSUME NEW sources, NEW T, NEW i \in DOMAIN sources, DOMAIN sources \subseteq Nat,
         Answered(sources[i], T), NEW g \in Files, RelationsOfType(sources[i], T)[g] # <<>>
  PROVE  RelationsOfSelection(sources, T)[g] # <<>>
<1> DEFINE having == {k \in DOMAIN sources : /\ Answered(sources[k], T)
                                             /\ RelationsOfType(sources[k], T)[g] # <<>>}
<1>1. having \in SUBSET Nat /\ having # {}
  OBVIOUS
<1>2. RelationsOfSelection(sources, T)[g] = RelationsOfType(sources[First(having)], T)[g]
  BY <1>1 DEF RelationsOfSelection
<1>3. First(having) \in having
  BY <1>1, FirstOfSet
<1> QED
  BY <1>2, <1>3

\* Each type that the menu offers shows relations of every file when it is opened.
THEOREM OfferedTypesAlwaysShow ==
  ASSUME NoSharedList
  PROVE  Spec => []OfferedTypesShow
<1>1. ASSUME ListedInv
      PROVE  OfferedTypesShow
  <2>1. ASSUME NEW f \in files, NEW T \in TypesFor(<<f>>) \ Dynamic
        PROVE  \E g \in Files : RelationsOfType(f, T)[g] # <<>> /\ RelationsFor(<<f>>, T)[g] # <<>>
    <3>1. T \in AllRelations(f) /\ T \in Types
      BY DEF TypesFor, AllRelations
    <3>2. RelationsFor(<<f>>, T) = RelationsOfType(f, T)
      BY DEF RelationsFor
    <3> QED
      BY NoSharedList, <1>1, <2>1, <3>1, <3>2, OfferedHasTarget DEF NoSharedList
  <2>2. ASSUME NEW e \in files, NEW f \in files, NEW T \in TypesFor(<<e, f>>) \ Dynamic,
               NEW i \in 1 .. 2, Answered(<<e, f>>[i], T)
        PROVE  \E g \in Files : /\ RelationsOfType(<<e, f>>[i], T)[g] # <<>>
                                /\ RelationsFor(<<e, f>>, T)[g] # <<>>
    <3> DEFINE both == <<e, f>>
    <3>1. /\ DOMAIN both = 1 .. 2 /\ DOMAIN both \subseteq Nat /\ Len(both) = 2
          /\ both[i] \in files
      OBVIOUS
    <3>2. TypesFor(both) = TypesOfSelection(both) /\ RelationsFor(both, T) = RelationsOfSelection(both, T)
      BY <3>1 DEF TypesFor, RelationsFor
    <3> HIDE DEF both
    <3>3. T \in AllRelations(both[i]) /\ T \in Types /\ T \notin Dynamic
      BY <3>1, <3>2 DEF TypesOfSelection, both
    <3>4. PICK g \in Files : RelationsOfType(both[i], T)[g] # <<>>
      BY NoSharedList, <1>1, <3>1, <3>3, OfferedHasTarget DEF NoSharedList
    <3>5. RelationsOfSelection(both, T)[g] # <<>>
      BY <2>2, <3>1, <3>4, SelectionHasTarget DEF both
    <3> QED
      BY <3>2, <3>4, <3>5 DEF both
  <2> SUFFICES ASSUME NEW sources \in {<<f>> : f \in files} \cup (files \X files),
                      NEW T \in TypesFor(sources) \ Dynamic,
                      NEW i \in DOMAIN sources, Answered(sources[i], T)
               PROVE  \E g \in Files : /\ RelationsOfType(sources[i], T)[g] # <<>>
                                       /\ RelationsFor(sources, T)[g] # <<>>
    BY DEF OfferedTypesShow
  <2>3. CASE sources \in {<<f>> : f \in files}
    <3>1. PICK f \in files : sources = <<f>>
      BY <2>3
    <3>2. i = 1 /\ sources[i] = f
      BY <3>1
    <3> QED
      BY <2>1, <3>1, <3>2
  <2>4. CASE sources \in files \X files
    <3>1. PICK e \in files, f \in files : sources = <<e, f>>
      BY <2>4
    <3>2. i \in 1 .. 2
      BY <3>1
    <3> QED
      BY <2>2, <3>1, <3>2
  <2> QED
    BY <2>3, <2>4
<1>2. ListedInv => OfferedTypesShow
  BY <1>1
<1> QED
  BY <1>2, ListedInvariant, PTL

\* Two edges of the graph that are the directions of one relation never say
\* the same, unless both have labels of their own.
THEOREM DirectionsAlwaysDiffer == Spec => []DirectionsDiffer
<1>1. ASSUME NEW a, NEW b, a.type = b.type, a.label = NoLabel \/ b.label = NoLabel,
             ForwardLabel[a.type] # NoLabel,
             InverseLabel[a.type] \notin {NoLabel, ForwardLabel[a.type]}
      PROVE  LabelsOfPair(a, b)[1] # LabelsOfPair(a, b)[2]
  <2> DEFINE forward == ForwardLabel[a.type]
             inverse == InverseLabel[a.type]
             one     == SettledLabel(a.type, a.label, b.label, TRUE)
             other   == SettledLabel(b.type, b.label, one, FALSE)
  <2>1. LabelsOfPair(a, b)[1] = one /\ LabelsOfPair(a, b)[2] = other
    BY DEF LabelsOfPair
  <2>2. one = IF a.label # NoLabel THEN a.label ELSE IF b.label = forward THEN inverse ELSE forward
    BY <1>1 DEF SettledLabel
  <2> HIDE DEF one
  <2>3. other = IF b.label # NoLabel THEN b.label
                ELSE IF one = forward \/ one = NoLabel THEN inverse ELSE forward
    BY <1>1 DEF SettledLabel
  <2> QED
    BY <1>1, <2>1, <2>2, <2>3
<1>2. DirectionsDiffer
  BY <1>1 DEF DirectionsDiffer
<1> QED
  BY <1>2, PTL

-----------------------------------------------------------------------------
(* A relation and its opposite direction are in step, where both have the   *)
(* same label and a target is never hidden by a copy of it.                 *)

\* No type and no request names the opposite of a relation, no update relabels one
\* (the opposite keeps the label that it has), and no file is copied.
SameLabelsNoCopies ==
  /\ \A T \in Types : InverseLabel[T] = NoLabel
  /\ OwnLabels \subseteq {NoLabel}
  /\ \A p \in Updates \ {NoProperties} : Labels \subseteq {NoLabel, p.label}
  /\ Copied = {}

InStep(st, there) ==
  \A f, g \in there, T \in Types : ShouldWriteInverse(T, f, g) => st.rel[f][T][g] = st.rel[g][T][f]

\* The inductive invariant.
InStepInv == ListedInv /\ ambiguous = {} /\ InStep(Store, files)

LEMMA InverseIsSame ==
  ASSUME SameLabelsNoCopies, NEW T \in Types, NEW p \in PropertySet, p.rid = NoRelationId
  PROVE  InverseProperties(T, p) = p
<1>1. InverseLabel[T] = NoLabel
  BY DEF SameLabelsNoCopies
<1>2. InverseProperties(T, p) = [p EXCEPT !.rid = NoRelationId, !.label = p.label]
  BY <1>1 DEF InverseProperties
<1> QED
  BY <1>2 DEF PropertySet

LEMMA AddedInverseIsSame ==
  ASSUME SameLabelsNoCopies, NEW T \in Types, NEW p \in PropertySet, p.rid = NoRelationId, NEW own \in OwnLabels
  PROVE  AddedInverse(T, p, own) = p
<1>1. own = NoLabel
  BY DEF SameLabelsNoCopies
<1>2. AddedInverse(T, p, own) = [p EXCEPT !.label = p.label]
  BY <1>1, InverseIsSame DEF AddedInverse
<1> QED
  BY <1>2 DEF PropertySet

\* Other new ids make no difference once they are copied.
LEMMA CopiedIdsAreSame ==
  ASSUME NEW sets, NEW p \in PropertySet, NEW new, NEW other, WellKept(sets),
         NewFor(new, sets), NewFor(other, sets)
  PROVE  CopyIds(AddSet(sets, p, new), AddSet(sets, p, other)) = AddSet(sets, p, new)
<1> DEFINE a == AddSet(sets, p, new)
           b == AddSet(sets, p, other)
           n == Len(sets)
<1>1. /\ a \in Seq(PropertySet) /\ Len(a) = n + 1
      /\ b \in Seq(PropertySet) /\ Len(b) = n + 1
  BY AddSetIdentified
<1>2. n \in Nat /\ sets \in Seq(PropertySet) /\ DOMAIN sets = 1 .. n
  BY LenProperties DEF WellKept
<1>3. ASSUME NEW i \in 1 .. n + 1
      PROVE  [b[i] EXCEPT !.rid = a[i].rid] = a[i]
  <2>1. CASE sets = <<>>
    <3>1. a = <<WithoutId(p)>> /\ b = <<WithoutId(p)>> /\ i = 1
      BY <2>1 DEF AddSet
    <3>2. a[i] = WithoutId(p) /\ b[i] = WithoutId(p)
      BY <3>1
    <3>3. WithoutId(p) \in PropertySet
      BY WithoutIdType
    <3> HIDE DEF a, b
    <3> QED
      BY <3>2, <3>3 DEF PropertySet
  <2>2. CASE sets # <<>>
    <3> DEFINE Named(new_, k) == IF sets[k].rid = NoRelationId THEN [sets[k] EXCEPT !.rid = new_[k + 1]] ELSE sets[k]
               Newest(new_) == [p EXCEPT !.rid = new_[1]]
    <3>1. ASSUME NEW new_
          PROVE  AddSet(sets, p, new_) = Append([k \in 1 .. n |-> Named(new_, k)], Newest(new_))
      BY <1>2, <2>2 DEF AddSet
    <3>2. ASSUME NEW new_, AddSet(sets, p, new_) \in Seq(PropertySet)
          PROVE  AddSet(sets, p, new_)[i] = IF i = n + 1 THEN Newest(new_) ELSE Named(new_, i)
      <4> DEFINE named == [k \in 1 .. n |-> Named(new_, k)]
                 All == {Named(new_, k) : k \in 1 .. n} \cup {Newest(new_)}
      <4>1. named \in [1 .. n -> All] /\ DOMAIN named = 1 .. n /\ Newest(new_) \in All
        OBVIOUS
      <4>2. \A k \in 1 .. n : named[k] = Named(new_, k)
        OBVIOUS
      <4>3. AddSet(sets, p, new_) = Append(named, Newest(new_))
        BY <3>1
      <4> HIDE DEF named, All, Named, Last
      <4>4. named \in Seq(All)
        BY <1>2, <4>1, SeqDef
      <4>5. Len(named) = n
        BY <1>2, <4>1, <4>4, LenProperties
      <4>6. /\ \A k \in 1 .. n : Append(named, Newest(new_))[k] = named[k]
            /\ Append(named, Newest(new_))[n + 1] = Newest(new_)
        BY <4>1, <4>4, <4>5, AppendProperties
      <4>7. CASE i = n + 1
        BY <4>3, <4>6, <4>7
      <4>8. CASE i # n + 1
        <5>1. i \in 1 .. n
          BY <1>2, <4>8
        <5>2. Append(named, Newest(new_))[i] = named[i] /\ named[i] = Named(new_, i)
          BY <4>2, <4>6, <5>1
        <5> QED
          BY <4>3, <4>8, <5>2
      <4> QED
        BY <4>7, <4>8
    <3>3. a[i] = (IF i = n + 1 THEN Newest(new) ELSE Named(new, i))
          /\ b[i] = (IF i = n + 1 THEN Newest(other) ELSE Named(other, i))
      BY <1>1, <3>2
    <3> HIDE DEF a, b
    <3>4. CASE i = n + 1
      BY <3>3, <3>4 DEF PropertySet
    <3>5. CASE i # n + 1
      <4>1. i \in 1 .. n
        BY <1>2, <3>5
      <4>2. sets[i] \in PropertySet
        BY <1>2, <4>1, ElementOfSeq
      <4>3. a[i] = Named(new, i) /\ b[i] = Named(other, i)
        BY <3>3, <3>5
      <4>4. CASE sets[i].rid = NoRelationId
        <5>1. a[i] = [sets[i] EXCEPT !.rid = new[i + 1]] /\ b[i] = [sets[i] EXCEPT !.rid = other[i + 1]]
          BY <4>3, <4>4
        <5> QED
          BY <4>2, <5>1 DEF PropertySet
      <4>5. CASE sets[i].rid # NoRelationId
        <5>1. a[i] = sets[i] /\ b[i] = sets[i]
          BY <4>3, <4>5
        <5> QED
          BY <4>2, <5>1 DEF PropertySet
      <4> QED
        BY <4>4, <4>5
    <3> QED
      BY <3>4, <3>5
  <2> QED
    BY <2>1, <2>2
<1> HIDE DEF a, b
<1>4. DOMAIN a = 1 .. n + 1 /\ DOMAIN b = 1 .. n + 1
  BY <1>1, <1>2, LenProperties
<1>5. CopyIds(a, b) = [i \in 1 .. n + 1 |-> a[i]]
  BY <1>3, <1>4 DEF CopyIds
<1>6. a = [i \in 1 .. n + 1 |-> a[i]]
  BY <1>1, <1>4
<1> QED
  BY <1>5, <1>6 DEF a, b

\* AddRelationTx gives both directions of a pair in step the same.
LEMMA OppositeIsSame ==
  ASSUME NEW r, NEW T, NEW s, NEW t, NEW p \in PropertySet, InverseProperties(T, p) = p,
         WellKept(r[s][T][t]), r[t][T][s] = r[s][T][t]
  PROVE  Opposite(r, T, s, t, p, p) = Forward(r, T, s, t, p)
<1> DEFINE forward == r[s][T][t]
           fresh == Forward(r, T, s, t, p)
           added == AddSet(forward, p, InverseIds(r, T, s, t))
<1>1. CASE InUse(forward, p)
  BY <1>1 DEF Opposite, Forward, FillProvenance
<1>2. CASE ~InUse(forward, p)
  <2>1. NewFor(ForwardIds(r, T, s, t), forward) /\ NewFor(InverseIds(r, T, s, t), forward)
    BY NewIdsAreNew
  <2>2. fresh = AddSet(forward, p, ForwardIds(r, T, s, t))
    BY <1>2 DEF Forward
  <2>3. Len(added) = Len(forward) + 1
    BY <2>1, AddSetIdentified
  <2>4. Opposite(r, T, s, t, p, p) = CopyIds(fresh, added)
    BY <1>2, <2>3 DEF Opposite
  <2> QED
    BY <2>1, <2>2, <2>4, CopiedIdsAreSame
<1> QED
  BY <1>1, <1>2

LEMMA AddTxInStep ==
  ASSUME NEW st, NEW edges, NEW T \in Types, NEW p \in PropertySet, InverseProperties(T, p) = p,
         StoreOK(st), NEW there \in SUBSET Files, InStep(st, there),
         \A f, g \in there : f # g => ~(<<f, g>> \in edges /\ <<g, f>> \in edges)
  PROVE  InStep(AddTx(st, edges, T, p, p), there)
<1> DEFINE new == AddTx(st, edges, T, p, p)
           Inverts(s, t) == <<s, t>> \in edges /\ s # t /\ ShouldWriteInverse(T, s, t)
           Pair(f, g) == IF <<f, g>> \in edges THEN Forward(st.rel, T, f, g, p)
                         ELSE IF Inverts(g, f) THEN Opposite(st.rel, T, g, f, p, p)
                         ELSE st.rel[f][T][g]
<1>1. \A f, g \in Files, U \in Types : WellKept(st.rel[f][U][g])
  BY DEF StoreOK
<1>2. \A f, g \in Files : new.rel[f][T][g] = Pair(f, g)
  BY DEF AddTx, StoreOK
<1>3. \A f, g \in Files, U \in Types : U # T => new.rel[f][U][g] = st.rel[f][U][g]
  BY AddTxRest
<1> HIDE DEF new
<1>4. ASSUME NEW f \in there, NEW g \in there, ShouldWriteInverse(T, f, g), f # g, <<f, g>> \in edges
      PROVE  Pair(f, g) = Pair(g, f)
  <2>1. <<g, f>> \notin edges /\ Inverts(f, g)
    BY <1>4
  <2>2. st.rel[g][T][f] = st.rel[f][T][g]
    BY <1>4 DEF InStep
  <2>3. Opposite(st.rel, T, f, g, p, p) = Forward(st.rel, T, f, g, p)
    BY <1>1, <2>2, OppositeIsSame
  <2> QED
    BY <1>4, <2>1, <2>3
<1>5. ASSUME NEW f \in there, NEW g \in there, ShouldWriteInverse(T, f, g)
      PROVE  Pair(f, g) = Pair(g, f)
  <2>1. ShouldWriteInverse(T, g, f)
    BY <1>5 DEF ShouldWriteInverse
  <2>2. CASE f = g
    BY <2>2
  <2>3. CASE f # g /\ <<f, g>> \in edges
    BY <1>4, <1>5, <2>3
  <2>4. CASE f # g /\ <<g, f>> \in edges
    BY <1>4, <2>1, <2>4
  <2>5. CASE <<f, g>> \notin edges /\ <<g, f>> \notin edges
    BY <1>5, <2>5 DEF InStep
  <2> QED
    BY <2>2, <2>3, <2>4, <2>5
<1> HIDE DEF Pair
<1>6. ASSUME NEW f \in there, NEW g \in there, NEW U \in Types, ShouldWriteInverse(U, f, g)
      PROVE  new.rel[f][U][g] = new.rel[g][U][f]
  <2>1. CASE U = T
    BY <1>2, <1>5, <1>6, <2>1
  <2>2. CASE U # T
    BY <1>3, <1>6, <2>2 DEF InStep
  <2> QED
    BY <2>1, <2>2
<1> QED
  BY <1>6 DEF InStep, new

LEMMA StorePairInStep ==
  ASSUME NEW st, NEW T \in Types, NEW s \in Files, NEW t \in Files, NEW forward, NEW inverse,
         StoreOK(st), NEW there \in SUBSET Files, InStep(st, there),
         s \in there /\ t \in there /\ s # t /\ ShouldWriteInverse(T, s, t) => forward = inverse
  PROVE  InStep(StorePair(st, T, s, t, forward, inverse), there)
<1> DEFINE new == StorePair(st, T, s, t, forward, inverse)
           Pair(f, g) == IF f = s /\ g = t THEN forward ELSE IF f = t /\ g = s THEN inverse ELSE st.rel[f][T][g]
<1>1. st.rel \in [Files -> [Types -> [Files -> Seq(PropertySet)]]]
  BY DEF StoreOK
<1>2. \A f, g \in Files : new.rel[f][T][g] = Pair(f, g)
  BY <1>1 DEF StorePair
<1>3. \A f, g \in Files, U \in Types : U # T => new.rel[f][U][g] = st.rel[f][U][g]
  BY <1>1 DEF StorePair
<1> HIDE DEF new
<1>4. ASSUME NEW f \in there, NEW g \in there, NEW U \in Types, ShouldWriteInverse(U, f, g)
      PROVE  new.rel[f][U][g] = new.rel[g][U][f]
  <2>1. ShouldWriteInverse(U, g, f) /\ st.rel[f][U][g] = st.rel[g][U][f]
    BY <1>4 DEF ShouldWriteInverse, InStep
  <2>2. CASE U # T
    BY <1>3, <2>1, <2>2
  <2>3. CASE U = T /\ f = g
    BY <2>3
  <2>4. CASE U = T /\ f # g
    <3>1. CASE {f, g} = {s, t}
      BY <1>2, <1>4, <2>1, <2>4, <3>1
    <3>2. CASE {f, g} # {s, t}
      BY <1>2, <2>1, <2>4, <3>2
    <3> QED
      BY <3>1, <3>2
  <2> QED
    BY <2>2, <2>3, <2>4
<1> QED
  BY <1>4 DEF InStep, new

\* The ids of the sets of a target tell them apart, so an id finds its own set.
LEMMA FindsItself ==
  ASSUME NEW sets, WellKept(sets), NEW i \in DOMAIN sets
  PROVE  FindSet(sets, sets[i].rid) = {i} /\ First(FindSet(sets, sets[i].rid)) = i
<1>1. DOMAIN sets = 1 .. Len(sets) /\ Len(sets) \in Nat
  BY LenProperties DEF WellKept
<1>2. FindSet(sets, sets[i].rid) = {i}
  <2>1. CASE Len(sets) = 1
    BY <1>1, <2>1 DEF WellKept, Identified, FindSet
  <2>2. CASE Len(sets) > 1
    BY <1>1, <2>2 DEF WellKept, Identified, FindSet
  <2> QED
    BY <1>1, <2>1, <2>2
<1>3. {i} \in SUBSET Nat
  BY <1>1
<1>4. First({i}) \in {i}
  BY <1>3, FirstOfSet
<1> QED
  BY <1>2, <1>4

LEMMA RemoveOneInStep ==
  ASSUME NEW st, NEW s \in Files, NEW T \in Types, NEW t \in Files, StoreOK(st),
         NEW i \in DOMAIN st.rel[s][T][t], NEW there \in SUBSET Files, InStep(st, there),
         t \in there /\ t # s => FindsInverse(s, t)
  PROVE  InStep(RemoveOne(st, s, T, t, i), there)
<1> DEFINE sets == st.rel[s][T][t]
           inverse == st.rel[t][T][s]
           forward == RemoveSet(sets, i)
           left == IF FindsInverse(s, t) THEN InverseWithout(inverse, sets[i].rid) ELSE inverse
<1>1. WellKept(sets)
  BY DEF StoreOK
<1>2. ASSUME s \in there, t \in there, s # t, ShouldWriteInverse(T, s, t)
      PROVE  forward = left
  <2>1. inverse = sets
    BY <1>2 DEF InStep
  <2>2. FindSet(sets, sets[i].rid) = {i} /\ First(FindSet(sets, sets[i].rid)) = i
    BY <1>1, FindsItself
  <2>3. InverseWithout(sets, sets[i].rid) = RemoveSet(sets, i)
    BY <2>2 DEF InverseWithout
  <2> QED
    BY <1>2, <2>1, <2>3
<1>3. RemoveOne(st, s, T, t, i) = StorePair(st, T, s, t, forward, left)
  BY DEF RemoveOne
<1> HIDE DEF forward, left
<1>4. InStep(StorePair(st, T, s, t, forward, left), there)
  BY <1>2, StorePairInStep
<1> QED
  BY <1>3, <1>4

LEMMA ReplaceInStep ==
  ASSUME NEW st, NEW s \in Files, NEW T \in Types, NEW t \in Files, StoreOK(st),
         NEW i \in DOMAIN st.rel[s][T][t], NEW p \in PropertySet, SameLabelsNoCopies,
         p \in Updates \ {NoProperties},
         NEW there \in SUBSET Files, InStep(st, there),
         t \in there /\ t # s => FindsInverse(s, t)
  PROVE  InStep(Replace(st, s, T, t, i, p), there)
<1> DEFINE sets == st.rel[s][T][t]
           inverse == st.rel[t][T][s]
           forward == ReplaceSet(sets, i, p)
           left == IF FindsInverse(s, t) THEN ReplaceInverse(T, inverse, sets[i].rid, p) ELSE inverse
<1>1. WellKept(sets)
  BY DEF StoreOK
<1>2. ASSUME s \in there, t \in there, s # t, ShouldWriteInverse(T, s, t)
      PROVE  forward = left
  <2>1. inverse = sets
    BY <1>2 DEF InStep
  <2>2. FindSet(sets, sets[i].rid) = {i} /\ First(FindSet(sets, sets[i].rid)) = i
    BY <1>1, FindsItself
  <2>3. sets[i] \in PropertySet
    BY <1>1, ElementOfSeq, LenProperties DEF WellKept
  <2>4. sets[i].label = NoLabel \/ sets[i].label = p.label
    BY <2>3 DEF SameLabelsNoCopies, PropertySet
  <2>5. InverseLabel[T] = NoLabel
    BY DEF SameLabelsNoCopies
  <2>6. InverseProperties(T, p) = WithoutId(p)
    <3>1. InverseProperties(T, p) = [p EXCEPT !.rid = NoRelationId, !.label = p.label]
      BY <2>5 DEF InverseProperties
    <3> QED
      BY <3>1 DEF PropertySet, WithoutId
  \* The opposite keeps its label, which is that of the update.
  <2>7. ReplaceInverse(T, sets, sets[i].rid, p) = ReplaceSet(sets, i, WithoutId(p))
    <3>1. sets[i].label = p.label => [WithoutId(p) EXCEPT !.label = sets[i].label] = WithoutId(p)
      BY DEF PropertySet, WithoutId
    <3> QED
      BY <2>2, <2>4, <2>6, <3>1 DEF ReplaceInverse
  <2>8. ReplaceSet(sets, i, WithoutId(p)) = ReplaceSet(sets, i, p)
    <3>1. [WithoutId(p) EXCEPT !.rid = sets[i].rid] = [p EXCEPT !.rid = sets[i].rid]
      BY DEF PropertySet, WithoutId
    <3> QED
      BY <3>1 DEF ReplaceSet
  <2> QED
    BY <1>2, <2>1, <2>7, <2>8
<1>3. Replace(st, s, T, t, i, p) = StorePair(st, T, s, t, forward, left)
  BY DEF Replace
<1> HIDE DEF forward, left
<1>4. InStep(StorePair(st, T, s, t, forward, left), there)
  BY <1>2, StorePairInStep
<1> QED
  BY <1>3, <1>4

LEMMA RemoveWholeInStep ==
  ASSUME NEW st, NEW s \in Files, NEW gone \in SUBSET (Types \X Files), StoreOK(st),
         NEW there \in SUBSET Files, InStep(st, there),
         \A t \in there, T \in Types : t # s /\ st.rel[s][T][t] # <<>> => FindsInverse(s, t)
  PROVE  InStep(RemoveWhole(st, s, gone), there)
<1> DEFINE new == RemoveWhole(st, s, gone)
           Inverts(T, f) == <<T, f>> \in gone /\ FindsInverse(s, f)
           Goes(f, T, g) == (f = s /\ <<T, g>> \in gone) \/ (g = s /\ Inverts(T, f))
<1>1. \A f, g \in Files, T \in Types : new.rel[f][T][g] = IF Goes(f, T, g) THEN <<>> ELSE st.rel[f][T][g]
  BY DEF RemoveWhole
<1> HIDE DEF new
\* Both directions go, or both were empty.
<1>2. ASSUME NEW t \in there, NEW T \in Types, ShouldWriteInverse(T, s, t), s \in there, s # t
      PROVE  new.rel[s][T][t] = new.rel[t][T][s]
  <2>1. st.rel[s][T][t] = st.rel[t][T][s]
    BY <1>2 DEF InStep
  <2>2. CASE st.rel[s][T][t] = <<>>
    BY <1>1, <1>2, <2>1, <2>2
  <2>3. CASE st.rel[s][T][t] # <<>>
    <3>1. FindsInverse(s, t)
      BY <1>2, <2>3
    <3>2. Goes(s, T, t) <=> Goes(t, T, s)
      BY <1>2, <3>1
    <3> QED
      BY <1>1, <1>2, <2>1, <3>2
  <2> QED
    BY <2>2, <2>3
<1>3. ASSUME NEW f \in there, NEW g \in there, NEW T \in Types, ShouldWriteInverse(T, f, g)
      PROVE  new.rel[f][T][g] = new.rel[g][T][f]
  <2>1. ShouldWriteInverse(T, g, f) /\ st.rel[f][T][g] = st.rel[g][T][f]
    BY <1>3 DEF ShouldWriteInverse, InStep
  <2>2. CASE f = g
    BY <2>2
  <2>3. CASE f # g /\ f = s
    BY <1>2, <1>3, <2>3
  <2>4. CASE f # g /\ g = s
    BY <1>2, <2>1, <2>4
  <2>5. CASE f # s /\ g # s
    BY <1>1, <2>1, <2>5
  <2> QED
    BY <2>2, <2>3, <2>4, <2>5
<1> QED
  BY <1>3 DEF InStep, new

\* A target that has a relation is found, as no copy has its id.
LEMMA InverseIsFound ==
  ASSUME InStepInv, NEW s \in Files, NEW t \in files, NEW T \in Types, rel[s][T][t] # <<>>, t # s
  PROVE  FindsInverse(s, t)
<1>1. t \in Files
  BY DEF InStepInv, ListedInv, RelationsInv, FilesOK
<1>2. s \in ids /\ t \in ids
  BY <1>1 DEF InStepInv, ListedInv, Listed, HaveIds, Store
<1> QED
  BY <1>2 DEF InStepInv, FindsInverse, Resolves

LEMMA StoreInStep ==
  ASSUME InStepInv
  PROVE  files \in SUBSET Files /\ StoreOK(Store) /\ InStep(Store, files)
BY DEF InStepInv, ListedInv, RelationsInv, FilesOK

LEMMA CommitInStep ==
  ASSUME NEW st, InStep(st, files), Commit(st), UNCHANGED files
  PROVE  InStep(Store, files)'
BY DEF Commit, InStep, Store

LEMMA StaysInStep ==
  ASSUME InStepInv, UNCHANGED attributes, UNCHANGED files
  PROVE  InStep(Store, files)'
BY DEF InStepInv, InStep, Store, attributes

LEMMA AddRelationInStep ==
  ASSUME InStepInv, SameLabelsNoCopies, NEW source \in Files, NEW target \in Files, NEW T \in Types,
         NEW p \in Inputs, NEW sender \in Senders, NEW own \in OwnLabels,
         AddRelation(source, target, T, p, sender, own)
  PROVE  InStep(Store, files)'
<1> DEFINE s     == IF Swaps(T, source, target) THEN target ELSE source
           t     == IF Swaps(T, source, target) THEN source ELSE target
           made  == StickyIds(T, p)
           added == AddedProperties(T, p, sender)
           new   == AddTx(Store, {<<s, t>>}, T, added, AddedInverse(T, added, own))
<1>1. UNCHANGED files
  BY DEF AddRelation
<1>2. Commit(new) \/ Fail(made, s, t)
  BY DEF AddRelation
<1>3. added \in PropertySet /\ added.rid = NoRelationId
  <2>1. p \in PropertySet
    BY SentAssumption DEF Sent
  <2>2. added.rid = NoRelationId
    BY <2>1 DEF AddedProperties, PropertySet
  <2> QED
    BY <2>2, AddedPropertiesType DEF InStepInv, ListedInv
<1> HIDE DEF s, t, made, added
<1>4. CASE Commit(new)
  <2>1. AddedInverse(T, added, own) = added /\ InverseProperties(T, added) = added
    BY <1>3, AddedInverseIsSame, InverseIsSame
  <2>2. \A f, g \in files : f # g => ~(<<f, g>> \in {<<s, t>>} /\ <<g, f>> \in {<<s, t>>})
    OBVIOUS
  <2>3. InStep(AddTx(Store, {<<s, t>>}, T, added, added), files)
    BY <1>3, <2>1, <2>2, StoreInStep, AddTxInStep
  <2> QED
    BY <1>1, <1>4, <2>1, <2>3, CommitInStep
<1>5. CASE Fail(made, s, t)
  BY <1>1, <1>5, StaysInStep DEF Fail
<1> QED
  BY <1>2, <1>4, <1>5

LEMMA RemoveRelationInStep ==
  ASSUME InStepInv, NEW s \in Files, NEW T \in Types, NEW t \in Files, NEW rid, NEW mode,
         RemoveRelation(s, T, t, rid, mode)
  PROVE  InStep(Store, files)'
<1>1. PICK i \in Addressed(rel[s][T][t], rid, mode = "override") : Commit(RemoveOne(Store, s, T, t, i))
  BY DEF RemoveRelation
<1>2. i \in DOMAIN Store.rel[s][T][t]
  BY AddressedIsThere DEF Store
<1>3. t \in files /\ t # s => FindsInverse(s, t)
  BY <1>2, InverseIsFound DEF Store
<1>4. InStep(RemoveOne(Store, s, T, t, i), files)
  BY <1>2, <1>3, StoreInStep, RemoveOneInStep
<1>5. UNCHANGED files
  BY DEF RemoveRelation
<1> QED
  BY <1>1, <1>4, <1>5, CommitInStep

LEMMA RemoveWholeRequestInStep ==
  ASSUME InStepInv, NEW s \in Files, NEW gone \in SUBSET (Types \X Files),
         Commit(RemoveWhole(Store, s, gone)), UNCHANGED files
  PROVE  InStep(Store, files)'
<1>1. \A t \in files, T \in Types : t # s /\ Store.rel[s][T][t] # <<>> => FindsInverse(s, t)
  BY InverseIsFound DEF Store
<1>2. InStep(RemoveWhole(Store, s, gone), files)
  BY <1>1, StoreInStep, RemoveWholeInStep
<1> QED
  BY <1>2, CommitInStep

LEMMA RemoveAllSetsInStep ==
  ASSUME InStepInv, NEW s \in Files, NEW T \in Types, NEW t \in Files, NEW mode,
         RemoveRelationAllSets(s, T, t, mode)
  PROVE  InStep(Store, files)'
BY RemoveWholeRequestInStep DEF RemoveRelationAllSets

LEMMA RemoveAllRelationsInStep ==
  ASSUME InStepInv, NEW s \in Files, NEW types \in SUBSET Types, NEW mode,
         RemoveAllRelations(s, types, mode)
  PROVE  InStep(Store, files)'
<1> DEFINE gone == {k \in types \X Files : /\ RemovesAll(rel[s][k[1]][k[2]], mode)
                                           /\ mode = "stale" => Stale(rel[s][k[1]][k[2]], k[2])}
<1>1. gone \in SUBSET (Types \X Files)
  OBVIOUS
<1>2. Commit(RemoveWhole(Store, s, gone)) /\ UNCHANGED files
  BY DEF RemoveAllRelations
<1> HIDE DEF gone
<1> QED
  BY <1>1, <1>2, RemoveWholeRequestInStep

\* What an update does to the store: the set gets its new properties, then it
\* is added at its new place and removed from the old one.
Moves(st, s, T, t, i, U, to) ==
  LET set   == WithoutId(st.rel[s][T][t][i])
      added == AddTx(st, {<<s, to>>}, U, set, InverseProperties(U, set))
  IN /\ to # t \/ U # T
     /\ StoreOK(added) /\ added.rel[s][T][t] = st.rel[s][T][t]
     /\ Commit(RemoveOne(added, s, T, t, i))

\* i is the set that is meant, and st what the store is with its new properties.
Updated(st, s, T, t, i, properties, mode) ==
  /\ rel[s][T][t][i].readonly => mode = "override"
  /\ \/ properties = NoProperties /\ st = Store
     \/ /\ properties \in PropertySet /\ properties \in Updates \ {NoProperties}
        /\ st = Replace(Store, s, T, t, i, properties)
  /\ StoreOK(st) /\ i \in DOMAIN st.rel[s][T][t]
  /\ \/ Commit(st)
     \/ \E to \in Files, U \in Types : Moves(st, s, T, t, i, U, to)
     \/ UNCHANGED attributes

LEMMA UpdateInParts ==
  ASSUME RelationsInv, NEW s \in Files, NEW T \in Types, NEW t \in Files, NEW rid,
         NEW properties \in Updates, NEW newTarget \in Files \cup {NoFile},
         NEW newType \in Types \cup {NoType}, NEW mode,
         UpdateRelation(s, T, t, rid, properties, newTarget, newType, mode)
  PROVE  \E st : \E i \in DOMAIN rel[s][T][t] : Updated(st, s, T, t, i, properties, mode)
<1> DEFINE to == IF newTarget = NoFile THEN t ELSE newTarget
           U  == IF newType = NoType THEN T ELSE newType
           Replaced(i) == IF properties = NoProperties THEN Store ELSE Replace(Store, s, T, t, i, properties)
           set(i)   == WithoutId(Replaced(i).rel[s][T][t][i])
           Added(i) == AddTx(Replaced(i), {<<s, to>>}, U, set(i), InverseProperties(U, set(i)))
<1>1. to \in Files /\ U \in Types
  OBVIOUS
<1>2. PICK i \in Addressed(rel[s][T][t], rid, mode = "override") :
        \/ Commit(Replaced(i))
        \/ /\ to # t \/ U # T
           /\ FitsBounds(Added(i))
           /\ Commit(RemoveOne(Added(i), s, T, t, i))
        \/ Fail({}, s, to)
  BY DEF UpdateRelation
<1> HIDE DEF to, U
<1>3. i \in DOMAIN rel[s][T][t] /\ (rel[s][T][t][i].readonly => mode = "override")
  BY AddressedIsThere DEF Addressed
<1>4. \/ properties = NoProperties /\ Replaced(i) = Store
      \/ /\ properties \in PropertySet /\ properties \in Updates \ {NoProperties}
         /\ Replaced(i) = Replace(Store, s, T, t, i, properties)
  BY SentAssumption DEF Sent
<1>5. StoreOK(Replaced(i)) /\ i \in DOMAIN Replaced(i).rel[s][T][t]
  <2>1. i \in DOMAIN Store.rel[s][T][t] /\ StoreOK(Store)
    BY <1>3 DEF RelationsInv, Store
  <2>2. CASE properties = NoProperties
    BY <2>1, <2>2
  <2>3. CASE properties # NoProperties
    <3>1. properties \in PropertySet
      BY <2>3, SentAssumption DEF Sent
    <3>2. /\ StoreOK(Replace(Store, s, T, t, i, properties))
          /\ Replace(Store, s, T, t, i, properties).rel[s][T][t] = ReplaceSet(Store.rel[s][T][t], i, properties)
      BY <2>1, <3>1, ReplaceOK
    <3> QED
      BY <2>1, <2>3, <3>2 DEF ReplaceSet
  <2> QED
    BY <2>2, <2>3
<1>6. set(i) \in PropertySet
  <2>1. WellKept(Replaced(i).rel[s][T][t])
    BY <1>5 DEF StoreOK
  <2>2. Replaced(i).rel[s][T][t][i] \in PropertySet
    BY <1>5, <2>1, ElementOfSeq, LenProperties DEF WellKept
  <2> QED
    BY <2>2, WithoutIdType
<1>7. ASSUME /\ to # t \/ U # T
             /\ FitsBounds(Added(i))
             /\ Commit(RemoveOne(Added(i), s, T, t, i))
      PROVE  Moves(Replaced(i), s, T, t, i, U, to)
  <2> HIDE DEF Replaced
  <2>1. {<<s, to>>} \in SUBSET (Files \X Files) /\ InverseProperties(U, set(i)) \in PropertySet
    BY <1>1, <1>6, InversePropertiesType
  <2>2. StoreOK(Added(i))
    BY <1>1, <1>5, <1>6, <1>7, <2>1, AddTxOK
  <2>3. Added(i).rel[s][T][t] = Replaced(i).rel[s][T][t]
    <3>1. T # U \/ ~Touches({<<s, to>>}, s, t)
      BY <1>7 DEF Touches
    <3> QED
      BY <1>1, <1>5, <3>1, AddTxRest
  <2> QED
    BY <1>7, <2>2, <2>3 DEF Moves
<1> HIDE DEF Replaced, set, Added
<1>8. \/ Commit(Replaced(i))
      \/ \E to_ \in Files, U_ \in Types : Moves(Replaced(i), s, T, t, i, U_, to_)
      \/ UNCHANGED attributes
  BY <1>1, <1>2, <1>7 DEF Fail
<1>9. Updated(Replaced(i), s, T, t, i, properties, mode)
  BY <1>3, <1>4, <1>5, <1>8 DEF Updated
<1> QED
  BY <1>3, <1>9

LEMMA UpdatedInStep ==
  ASSUME InStepInv, SameLabelsNoCopies, NEW s \in Files, NEW T \in Types, NEW t \in Files,
         NEW i \in DOMAIN rel[s][T][t], NEW st, NEW properties, NEW mode,
         Updated(st, s, T, t, i, properties, mode)
  PROVE  InStep(st, files) /\ (t \in files /\ t # s => FindsInverse(s, t))
<1>1. t \in files /\ t # s => FindsInverse(s, t)
  BY InverseIsFound
<1>2. CASE st = Store
  BY <1>1, <1>2, StoreInStep
<1>3. CASE /\ properties \in PropertySet /\ properties \in Updates \ {NoProperties}
           /\ st = Replace(Store, s, T, t, i, properties)
  <2>1. i \in DOMAIN Store.rel[s][T][t]
    BY DEF Store
  <2> QED
    BY <1>1, <1>3, <2>1, StoreInStep, ReplaceInStep
<1> QED
  BY <1>2, <1>3 DEF Updated

\* ...and with the set at its new place.
LEMMA MovedSet ==
  ASSUME SameLabelsNoCopies, NEW st, StoreOK(st), NEW s \in Files, NEW T \in Types, NEW t \in Files,
         NEW i \in DOMAIN st.rel[s][T][t], NEW U \in Types
  PROVE  LET set == WithoutId(st.rel[s][T][t][i])
         IN set \in PropertySet /\ InverseProperties(U, set) = set
<1>1. WellKept(st.rel[s][T][t])
  BY DEF StoreOK
<1>2. st.rel[s][T][t][i] \in PropertySet
  BY <1>1, ElementOfSeq, LenProperties DEF WellKept
<1> QED
  BY <1>2, WithoutIdType, InverseIsSame

LEMMA MovedInStep ==
  ASSUME SameLabelsNoCopies, NEW st, StoreOK(st), NEW there \in SUBSET Files, InStep(st, there),
         NEW s \in Files, NEW T \in Types, NEW t \in Files, NEW i \in DOMAIN st.rel[s][T][t],
         NEW U \in Types, NEW to \in Files
  PROVE  LET set == WithoutId(st.rel[s][T][t][i])
         IN InStep(AddTx(st, {<<s, to>>}, U, set, InverseProperties(U, set)), there)
<1> DEFINE set == WithoutId(st.rel[s][T][t][i])
<1>1. set \in PropertySet /\ InverseProperties(U, set) = set
  BY MovedSet
<1> HIDE DEF set
<1>2. \A f, g \in there : f # g => ~(<<f, g>> \in {<<s, to>>} /\ <<g, f>> \in {<<s, to>>})
  OBVIOUS
<1>3. InStep(AddTx(st, {<<s, to>>}, U, set, set), there)
  BY <1>1, <1>2, AddTxInStep
<1> QED
  BY <1>1, <1>3 DEF set

LEMMA UpdateRelationInStep ==
  ASSUME InStepInv, SameLabelsNoCopies, NEW s \in Files, NEW T \in Types, NEW t \in Files, NEW rid,
         NEW properties \in Updates, NEW newTarget \in Files \cup {NoFile},
         NEW newType \in Types \cup {NoType}, NEW mode,
         UpdateRelation(s, T, t, rid, properties, newTarget, newType, mode)
  PROVE  InStep(Store, files)'
<1>1. PICK st : \E i \in DOMAIN rel[s][T][t] : Updated(st, s, T, t, i, properties, mode)
  BY UpdateInParts DEF InStepInv, ListedInv
<1>2. PICK i \in DOMAIN rel[s][T][t] : Updated(st, s, T, t, i, properties, mode)
  BY <1>1
<1>3. UNCHANGED files
  BY DEF UpdateRelation
<1>4. InStep(st, files) /\ (t \in files /\ t # s => FindsInverse(s, t))
  BY <1>2, UpdatedInStep
<1>5. StoreOK(st) /\ i \in DOMAIN st.rel[s][T][t]
  BY <1>2 DEF Updated
<1>6. CASE Commit(st)
  BY <1>3, <1>4, <1>6, CommitInStep
<1>7. ASSUME NEW to \in Files, NEW U \in Types, Moves(st, s, T, t, i, U, to)
      PROVE  InStep(Store, files)'
  <2> DEFINE set == WithoutId(st.rel[s][T][t][i])
             added == AddTx(st, {<<s, to>>}, U, set, InverseProperties(U, set))
  <2>1. StoreOK(added) /\ added.rel[s][T][t] = st.rel[s][T][t] /\ Commit(RemoveOne(added, s, T, t, i))
    BY <1>7 DEF Moves
  <2>2. InStep(added, files)
    BY <1>4, <1>5, StoreInStep, MovedInStep
  <2> HIDE DEF added
  <2>3. i \in DOMAIN added.rel[s][T][t]
    BY <1>5, <2>1
  <2>4. InStep(RemoveOne(added, s, T, t, i), files)
    BY <1>4, <2>1, <2>2, <2>3, StoreInStep, RemoveOneInStep
  <2> QED
    BY <1>3, <2>1, <2>4, CommitInStep
<1>8. CASE UNCHANGED attributes
  BY <1>3, <1>8, StaysInStep
<1> QED
  BY <1>2, <1>6, <1>7, <1>8 DEF Updated

LEMMA ApplyStickyInStep ==
  ASSUME InStepInv, SameLabelsNoCopies, NEW new \in SUBSET Files, ApplySticky(new)
  PROVE  InStep(Store, files)'
<1> DEFINE edges == new \X StickyClassifications
           q     == InverseProperties(Association, Plain)
           st    == AddTx(Store, edges, Association, Plain, q)
<1>1. Association \in Types /\ UNCHANGED files
  BY DEF ApplySticky
<1>2. Plain \in PropertySet /\ Plain.rid = NoRelationId
  BY DEF Plain, PropertySet, Labels
<1>3. Commit(st) \/ UNCHANGED attributes
  BY DEF ApplySticky
<1>4. q = Plain
  BY <1>1, <1>2, InverseIsSame
<1>5. \A f, g \in files : f # g => ~(<<f, g>> \in edges /\ <<g, f>> \in edges)
  BY DEF ApplySticky, StickyClassifications
<1> HIDE DEF edges, q
<1>6. CASE Commit(st)
  <2>1. InStep(AddTx(Store, edges, Association, Plain, Plain), files)
    BY <1>1, <1>2, <1>4, <1>5, StoreInStep, AddTxInStep DEF q
  <2> QED
    BY <1>1, <1>4, <1>6, <2>1, CommitInStep
<1>7. CASE UNCHANGED attributes
  BY <1>1, <1>7, StaysInStep
<1> QED
  BY <1>3, <1>6, <1>7

LEMMA DeleteFileInStep ==
  ASSUME InStepInv, NEW d \in Files, DeleteFile(d)
  PROVE  InStep(Store, files)'
<1>1. rel \in [Files -> [Types -> [Files -> Seq(PropertySet)]]] /\ files \subseteq Files
  BY StoreInStep DEF StoreOK, Store
<1>2. \A f, g \in Files, T \in Types : f # d => rel'[f][T][g] = rel[f][T][g]
  BY <1>1 DEF DeleteFile
<1>3. files' = files \ {d}
  BY DEF DeleteFile
<1>4. \A f, g \in files, T \in Types : ShouldWriteInverse(T, f, g) => rel[f][T][g] = rel[g][T][f]
  BY DEF InStepInv, InStep, Store
<1> QED
  BY <1>1, <1>2, <1>3, <1>4 DEF InStep, Store, ShouldWriteInverse

\* Nothing makes an id ambiguous but a copy.
LEMMA NoCopyComes ==
  ASSUME SameLabelsNoCopies, ambiguous = {}, [Next]_vars
  PROVE  ambiguous' = {}
<1>1. ASSUME NEW f \in Files, CopyFile(f)
      PROVE  FALSE
  BY <1>1 DEF SameLabelsNoCopies, CopyFile
<1>2. ASSUME NEW f \in Files, ToggleSticky(f) \/ DeleteFile(f) \/ FindCopy(f)
      PROVE  ambiguous' = {}
  BY <1>2 DEF ToggleSticky, DeleteFile, FindCopy
<1>3. ASSUME NEW new \in SUBSET Files, ApplySticky(new)
      PROVE  ambiguous' = {}
  BY <1>3 DEF ApplySticky
<1>4. ASSUME NEW s \in Files, NEW types, NEW mode, RemoveAllRelations(s, types, mode)
      PROVE  ambiguous' = {}
  BY <1>4 DEF RemoveAllRelations
<1>5. ASSUME NEW s, NEW t, NEW T, NEW p, NEW sender, NEW own, AddRelation(s, t, T, p, sender, own)
      PROVE  ambiguous' = {}
  BY <1>5 DEF AddRelation
<1>6. ASSUME NEW s, NEW t, NEW T, NEW rid, NEW mode,
             RemoveRelation(s, T, t, rid, mode) \/ RemoveRelationAllSets(s, T, t, mode)
      PROVE  ambiguous' = {}
  BY <1>6 DEF RemoveRelation, RemoveRelationAllSets
<1>7. ASSUME NEW s, NEW t, NEW T, NEW rid, NEW p, NEW to, NEW U, NEW mode,
             UpdateRelation(s, T, t, rid, p, to, U, mode)
      PROVE  ambiguous' = {}
  BY <1>7 DEF UpdateRelation
<1>8. CASE UNCHANGED vars
  BY <1>8 DEF vars
<1>9. CASE Next
  BY <1>1, <1>2, <1>3, <1>4, <1>5, <1>6, <1>7, <1>9, Zenon DEF Next
<1> QED
  BY <1>8, <1>9

LEMMA InitInStepInv == Init => InStepInv
<1> SUFFICES ASSUME Init PROVE InStepInv
  OBVIOUS
<1>1. files \subseteq Files /\ \A f, g \in Files, T \in Types : Store.rel[f][T][g] = <<>>
  BY DEF Init, Store
<1>2. InStep(Store, files)
  BY <1>1 DEF InStep
<1> QED
  BY <1>2, InitListedInv DEF InStepInv, Init

LEMMA NextInStepInv ==
  ASSUME SameLabelsNoCopies
  PROVE  InStepInv /\ [Next]_vars => InStepInv'
<1> SUFFICES ASSUME InStepInv, [Next]_vars
             PROVE  InStep(Store, files)'
  BY SameLabelsNoCopies, NextListedInv, NoCopyComes DEF InStepInv
<1>0. SameLabelsNoCopies
  OBVIOUS
<1>1. ASSUME NEW s \in Files, NEW t \in Files, NEW T \in Types,
             \E p \in Inputs, sender \in Senders, own \in OwnLabels : AddRelation(s, t, T, p, sender, own)
      PROVE  InStep(Store, files)'
  BY <1>0, <1>1, AddRelationInStep
<1>2. ASSUME NEW s \in Files, NEW t \in Files, NEW T \in Types,
             \E rid \in RequestIds(s, T, t), mode \in OneModes : RemoveRelation(s, T, t, rid, mode)
      PROVE  InStep(Store, files)'
  BY <1>2, RemoveRelationInStep
<1>3. ASSUME NEW s \in Files, NEW t \in Files, NEW T \in Types,
             \E mode \in OneModes : RemoveRelationAllSets(s, T, t, mode)
      PROVE  InStep(Store, files)'
  BY <1>3, RemoveAllSetsInStep
<1>4. ASSUME NEW s \in Files, NEW t \in Files, NEW T \in Types,
             NEW rid \in RequestIds(s, T, t), NEW p \in Updates, NEW to \in Files \cup {NoFile},
             NEW mode \in OneModes, NEW U \in Types \cup (IF to = NoFile THEN {NoType} ELSE {}),
             UpdateRelation(s, T, t, rid, p, to, U, mode)
      PROVE  InStep(Store, files)'
  <2>1. U \in Types \cup {NoType}
    OBVIOUS
  <2> QED
    BY <1>0, <1>4, <2>1, UpdateRelationInStep
<1>5. ASSUME NEW s \in Files, NEW types \in {Types} \cup {{T} : T \in Types}, NEW mode \in RemoveModes,
             RemoveAllRelations(s, types, mode)
      PROVE  InStep(Store, files)'
  <2>1. types \in SUBSET Types
    OBVIOUS
  <2> QED
    BY <1>5, <2>1, RemoveAllRelationsInStep
<1>6. ASSUME NEW new \in SUBSET Files, ApplySticky(new)
      PROVE  InStep(Store, files)'
  BY <1>0, <1>6, ApplyStickyInStep
<1>7. ASSUME NEW f \in Files, ToggleSticky(f) \/ DeleteFile(f) \/ CopyFile(f) \/ FindCopy(f)
      PROVE  InStep(Store, files)'
  <2>1. CASE DeleteFile(f)
    BY <2>1, DeleteFileInStep
  <2>2. CASE ToggleSticky(f) \/ CopyFile(f) \/ FindCopy(f)
    BY <2>2, StaysInStep DEF ToggleSticky, CopyFile, FindCopy, attributes
  <2> QED
    BY <1>7, <2>1, <2>2
<1>8. CASE UNCHANGED vars
  BY <1>8, StaysInStep DEF vars, attributes
<1>9. ASSUME NEW s \in Files, NEW t \in Files, NEW T \in Types,
             \E rid \in RequestIds(s, T, t), p \in Updates, to \in Files \cup {NoFile}, mode \in OneModes :
               \E U \in Types \cup (IF to = NoFile THEN {NoType} ELSE {}) :
                 UpdateRelation(s, T, t, rid, p, to, U, mode)
      PROVE  InStep(Store, files)'
  BY <1>4, <1>9, Zenon
<1> QED
  BY <1>1, <1>2, <1>3, <1>5, <1>6, <1>7, <1>8, <1>9, Zenon DEF Next

\* Whatever sequence of requests, failures and deletions made them: where only
\* labels could make the directions differ, both are the same.
THEOREM RelationsAreMirrored ==
  ASSUME SameLabelsNoCopies
  PROVE  Spec => []Mirrored
<1>1. InStepInv /\ [Next]_vars => InStepInv'
  BY SameLabelsNoCopies, NextInStepInv
<1>2. InStepInv => Mirrored
  BY DEF InStepInv, InStep, Mirrored, Store
<1> QED
  BY <1>1, <1>2, InitInStepInv, PTL DEF Spec

-----------------------------------------------------------------------------
(* What a change of the sets of one target keeps: AddRelationTx only adds   *)
(* to them, RemoveRelationTx takes one away, and no two of them are the     *)
(* same relation.                                                           *)

\* Each set is still there, at its index, and with its creator.
Grows(old, new) ==
  /\ Len(old) <= Len(new)
  /\ \A i \in 1 .. Len(old) :
       /\ Identity(new[i]) = Identity(old[i])
       /\ old[i].provenance # NoCreator => new[i].provenance = old[i].provenance

Distinct(sets) == \A i, j \in 1 .. Len(sets) : Identity(sets[i]) = Identity(sets[j]) => i = j

LEMMA IdentityOf ==
  ASSUME NEW set \in PropertySet, NEW x
  PROVE  /\ Identity([set EXCEPT !.rid = x]) = Identity(set)
         /\ Identity([set EXCEPT !.provenance = x]) = Identity(set)
         /\ Identity(WithoutId(set)) = Identity(set)
         /\ WithoutId(set).provenance = set.provenance
         /\ [set EXCEPT !.rid = x].provenance = set.provenance
         /\ [set EXCEPT !.provenance = x].provenance = x
BY DEF Identity, WithoutId, PropertySet

LEMMA GrowsItself ==
  ASSUME NEW sets, WellKept(sets)
  PROVE  Grows(sets, sets)
<1>1. Len(sets) \in Nat
  BY LenProperties DEF WellKept
<1> QED
  BY <1>1 DEF Grows

LEMMA GrowsOn ==
  ASSUME NEW a, NEW b, NEW c, Len(a) \in Nat, Len(b) \in Nat, Len(c) \in Nat, Grows(a, b), Grows(b, c)
  PROVE  Grows(a, c)
<1>1. \A i \in 1 .. Len(a) : i \in 1 .. Len(b)
  BY DEF Grows
<1> QED
  BY <1>1 DEF Grows

LEMMA FillProvenanceGrows ==
  ASSUME NEW sets, NEW p, WellKept(sets)
  PROVE  Grows(sets, FillProvenance(sets, p)) /\ Len(FillProvenance(sets, p)) = Len(sets)
<1>1. CASE CanFill(sets, p)
  <2> DEFINE i == First(Fillable(sets, p))
             filled == [sets[i] EXCEPT !.provenance = p.provenance]
  <2>1. DOMAIN sets = 1 .. Len(sets) /\ Len(sets) \in Nat /\ sets \in Seq(PropertySet)
    BY LenProperties DEF WellKept
  <2>2. i \in Fillable(sets, p)
    <3>1. Fillable(sets, p) \in SUBSET Nat
      BY <2>1 DEF Fillable, SameAs
    <3>2. Fillable(sets, p) # {}
      BY <1>1 DEF CanFill
    <3> QED
      BY <3>1, <3>2, FirstOfSet
  <2>3. i \in 1 .. Len(sets) /\ sets[i].provenance = NoCreator
    BY <2>1, <2>2 DEF Fillable, SameAs
  <2>4. FillProvenance(sets, p) = [sets EXCEPT ![i] = filled]
    BY <1>1 DEF FillProvenance
  <2> HIDE DEF i
  <2>5. Identity(filled) = Identity(sets[i])
    <3>1. sets[i] \in PropertySet
      BY <2>1, <2>3, ElementOfSeq
    <3> QED
      BY <3>1, IdentityOf
  <2> HIDE DEF filled
  <2>6. \A j \in 1 .. Len(sets) : [sets EXCEPT ![i] = filled][j] = IF j = i THEN filled ELSE sets[j]
    BY <2>1
  <2>7. Len([sets EXCEPT ![i] = filled]) = Len(sets)
    <3>1. [sets EXCEPT ![i] = filled] \in Seq(PropertySet \cup {filled})
      BY <2>1, <2>3
    <3>2. DOMAIN [sets EXCEPT ![i] = filled] = 1 .. Len(sets)
      BY <2>1
    <3> QED
      BY <2>1, <3>1, <3>2, LenProperties
  <2> QED
    BY <2>1, <2>3, <2>4, <2>5, <2>6, <2>7 DEF Grows
<1>2. CASE ~CanFill(sets, p)
  BY <1>2, GrowsItself DEF FillProvenance
<1> QED
  BY <1>1, <1>2

LEMMA CopyIdsGrows ==
  ASSUME NEW from, NEW to \in Seq(PropertySet), WellKept(from), Len(to) = Len(from)
  PROVE  Grows(to, CopyIds(from, to))
<1>1. Len(to) \in Nat /\ DOMAIN to = 1 .. Len(to) /\ Len(CopyIds(from, to)) = Len(to)
  BY LenProperties, CopyIdsWellKept
<1>2. ASSUME NEW i \in 1 .. Len(to)
      PROVE  /\ Identity(CopyIds(from, to)[i]) = Identity(to[i])
             /\ CopyIds(from, to)[i].provenance = to[i].provenance
  <2>1. to[i] \in PropertySet
    BY <1>1, ElementOfSeq
  <2> DEFINE x == from[i].rid
  <2>2. CopyIds(from, to)[i] = [to[i] EXCEPT !.rid = x]
    BY <1>1 DEF CopyIds
  <2> HIDE DEF x
  <2>3. /\ Identity([to[i] EXCEPT !.rid = x]) = Identity(to[i])
        /\ [to[i] EXCEPT !.rid = x].provenance = to[i].provenance
    BY <2>1, IdentityOf
  <2> QED
    BY <2>2, <2>3
<1> QED
  BY <1>1, <1>2 DEF Grows

\* The new set is the last one.
LEMMA AddSetGrows ==
  ASSUME NEW sets, NEW p \in PropertySet, NEW new, WellKept(sets), NewFor(new, sets)
  PROVE  /\ Grows(sets, AddSet(sets, p, new))
         /\ Identity(AddSet(sets, p, new)[Len(sets) + 1]) = Identity(p)
<1> DEFINE n == Len(sets)
           all == AddSet(sets, p, new)
<1>1. sets \in Seq(PropertySet) /\ n \in Nat /\ DOMAIN sets = 1 .. n
  BY LenProperties DEF WellKept
<1>2. Len(all) = n + 1
  BY AddSetIdentified
<1>3. CASE sets = <<>>
  <2>1. all = <<WithoutId(p)>> /\ n = 0
    BY <1>3 DEF AddSet
  <2>2. all[n + 1] = WithoutId(p)
    BY <2>1
  <2>3. Identity(all[n + 1]) = Identity(p)
    BY <2>2, IdentityOf
  <2> QED
    BY <1>2, <2>1, <2>3 DEF Grows
<1>4. CASE sets # <<>>
  <2> DEFINE Named(k) == IF sets[k].rid = NoRelationId THEN [sets[k] EXCEPT !.rid = new[k + 1]] ELSE sets[k]
             newest == [p EXCEPT !.rid = new[1]]
             named == [k \in 1 .. n |-> Named(k)]
             All == {Named(k) : k \in 1 .. n} \cup {newest}
  <2>1. all = Append(named, newest)
    BY <1>1, <1>4 DEF AddSet
  <2>2. ASSUME NEW k \in 1 .. n
        PROVE  Identity(Named(k)) = Identity(sets[k]) /\ Named(k).provenance = sets[k].provenance
    <3>1. sets[k] \in PropertySet
      BY <1>1, ElementOfSeq
    <3> QED
      BY <3>1, IdentityOf
  <2>3. Identity(newest) = Identity(p)
    BY IdentityOf
  <2>4. named \in [1 .. n -> All] /\ DOMAIN named = 1 .. n /\ newest \in All
    OBVIOUS
  <2>5. \A k \in 1 .. n : named[k] = Named(k)
    OBVIOUS
  <2> HIDE DEF named, All, Named, newest
  <2>6. named \in Seq(All)
    BY <1>1, <2>4, SeqDef
  <2>7. Len(named) = n
    BY <1>1, <2>4, <2>6, LenProperties
  <2>8. /\ \A k \in 1 .. n : Append(named, newest)[k] = named[k]
        /\ Append(named, newest)[n + 1] = newest
    BY <2>4, <2>6, <2>7, AppendProperties
  <2>9. \A k \in 1 .. n : all[k] = Named(k)
    BY <2>1, <2>5, <2>8
  <2>10. all[n + 1] = newest
    BY <2>1, <2>8
  <2> HIDE DEF all
  <2>11. Grows(sets, all)
    BY <1>1, <1>2, <2>2, <2>9 DEF Grows
  <2> QED
    BY <2>3, <2>10, <2>11 DEF all
<1> QED
  BY <1>3, <1>4

LEMMA DistinctStays ==
  ASSUME NEW old, NEW new, Len(old) \in Nat, Grows(old, new), Len(new) = Len(old), Distinct(old)
  PROVE  Distinct(new)
BY DEF Grows, Distinct

LEMMA AddSetDistinct ==
  ASSUME NEW sets, NEW p \in PropertySet, NEW new, WellKept(sets), NewFor(new, sets),
         Distinct(sets), ~InUse(sets, p)
  PROVE  Distinct(AddSet(sets, p, new))
<1> DEFINE n == Len(sets)
           all == AddSet(sets, p, new)
<1>1. n \in Nat /\ DOMAIN sets = 1 .. n
  BY LenProperties DEF WellKept
<1>2. Len(all) = n + 1
  BY AddSetIdentified
<1>3. /\ \A k \in 1 .. n : Identity(all[k]) = Identity(sets[k])
      /\ Identity(all[n + 1]) = Identity(p)
  BY AddSetGrows DEF Grows
<1>4. \A k \in 1 .. n : Identity(sets[k]) # Identity(p)
  BY <1>1 DEF InUse, SameAs
<1> HIDE DEF all
<1>5. ASSUME NEW i \in 1 .. n + 1, NEW j \in 1 .. n + 1, Identity(all[i]) = Identity(all[j])
      PROVE  i = j
  <2>1. CASE i \in 1 .. n /\ j \in 1 .. n
    BY <1>3, <1>5, <2>1 DEF Distinct
  <2>2. CASE i = n + 1 /\ j = n + 1
    BY <2>2
  <2>3. CASE i \in 1 .. n /\ j = n + 1
    BY <1>3, <1>4, <1>5, <2>3
  <2>4. CASE i = n + 1 /\ j \in 1 .. n
    BY <1>3, <1>4, <1>5, <2>4
  <2> QED
    BY <1>1, <2>1, <2>2, <2>3, <2>4
<1> QED
  BY <1>2, <1>5 DEF Distinct, all

\* The sets but the i-th, in their order, and with their creators.
Leaves(old, i, new) ==
  /\ Len(new) = Len(old) - 1
  /\ \A j \in 1 .. Len(old) - 1 :
       /\ Identity(new[j]) = Identity(old[IF j < i THEN j ELSE j + 1])
       /\ new[j].provenance = old[IF j < i THEN j ELSE j + 1].provenance

LEMMA RemoveSetLeaves ==
  ASSUME NEW sets, NEW i \in DOMAIN sets, WellKept(sets)
  PROVE  Leaves(sets, i, RemoveSet(sets, i))
<1> DEFINE n == Len(sets)
<1>1. sets \in Seq(PropertySet) /\ n \in Nat /\ DOMAIN sets = 1 .. n
  BY LenProperties DEF WellKept
<1>2. CASE n = 2
  <2>1. RemoveSet(sets, i) = <<WithoutId(sets[3 - i])>>
    BY <1>2 DEF RemoveSet
  <2>2. sets[3 - i] \in PropertySet
    BY <1>1, <1>2, ElementOfSeq
  <2>3. (IF 1 < i THEN 1 ELSE 1 + 1) = 3 - i
    BY <1>1, <1>2
  <2>4. Len(RemoveSet(sets, i)) = 1 /\ RemoveSet(sets, i)[1] = WithoutId(sets[3 - i])
    BY <2>1
  <2>5. /\ Identity(RemoveSet(sets, i)[1]) = Identity(sets[3 - i])
        /\ RemoveSet(sets, i)[1].provenance = sets[3 - i].provenance
    BY <2>2, <2>4, IdentityOf
  <2>6. \A j \in 1 .. n - 1 : j = 1
    BY <1>2
  <2> QED
    BY <1>2, <2>3, <2>4, <2>5, <2>6 DEF Leaves
<1>3. CASE n # 2
  BY <1>1, <1>3, RemoveSetLeft DEF Leaves
<1> QED
  BY <1>2, <1>3

\* The place of a set that is left.
LEMMA LeftAt ==
  ASSUME NEW old, NEW i \in 1 .. Len(old), NEW new, Len(old) \in Nat, Leaves(old, i, new),
         NEW k \in 1 .. Len(old), k # i
  PROVE  \E j \in 1 .. Len(new) : /\ Identity(new[j]) = Identity(old[k])
                                  /\ new[j].provenance = old[k].provenance
<1> DEFINE j == IF k < i THEN k ELSE k - 1
<1>1. j \in 1 .. Len(old) - 1 /\ (IF j < i THEN j ELSE j + 1) = k
  OBVIOUS
<1> HIDE DEF j
<1> QED
  BY <1>1 DEF Leaves

LEMMA LeavesDistinct ==
  ASSUME NEW old, NEW i \in 1 .. Len(old), NEW new, Len(old) \in Nat, Leaves(old, i, new), Distinct(old)
  PROVE  /\ Distinct(new)
         /\ \A j \in 1 .. Len(new) : Identity(new[j]) # Identity(old[i])
<1> DEFINE Was(j) == IF j < i THEN j ELSE j + 1
<1>1. \A j \in 1 .. Len(old) - 1 : Was(j) \in 1 .. Len(old) /\ Was(j) # i
  OBVIOUS
<1>2. \A j, k \in 1 .. Len(old) - 1 : Was(j) = Was(k) => j = k
  OBVIOUS
<1>3. Len(new) = Len(old) - 1 /\ \A j \in 1 .. Len(old) - 1 : Identity(new[j]) = Identity(old[Was(j)])
  BY DEF Leaves
<1> HIDE DEF Was
<1> QED
  BY <1>1, <1>2, <1>3 DEF Distinct

\* What AddRelationTx makes of the sets of one direction.
LEMMA ForwardGrows ==
  ASSUME NEW r, NEW T, NEW s, NEW t, NEW p \in PropertySet,
         WellKept(r[s][T][t]), WellKept(r[t][T][s])
  PROVE  /\ Grows(r[s][T][t], Forward(r, T, s, t, p))
         /\ Distinct(r[s][T][t]) => Distinct(Forward(r, T, s, t, p))
<1> DEFINE sets == r[s][T][t]
<1>1. Len(sets) \in Nat
  BY LenProperties DEF WellKept
<1>2. CASE InUse(sets, p)
  <2>1. Forward(r, T, s, t, p) = FillProvenance(sets, p)
    BY <1>2 DEF Forward
  <2>2. Grows(sets, FillProvenance(sets, p)) /\ Len(FillProvenance(sets, p)) = Len(sets)
    BY FillProvenanceGrows
  <2> QED
    BY <1>1, <2>1, <2>2, DistinctStays
<1>3. CASE ~InUse(sets, p)
  <2>1. Forward(r, T, s, t, p) = AddSet(sets, p, ForwardIds(r, T, s, t))
    BY <1>3 DEF Forward
  <2>2. NewFor(ForwardIds(r, T, s, t), sets)
    BY NewIdsAreNew
  <2> QED
    BY <1>3, <2>1, <2>2, AddSetGrows, AddSetDistinct
<1> QED
  BY <1>2, <1>3

LEMMA OppositeGrows ==
  ASSUME NEW r, NEW T \in Types, NEW s, NEW t, NEW p \in PropertySet, NEW q \in PropertySet,
         WellKept(r[s][T][t]), WellKept(r[t][T][s]), WellKept(Forward(r, T, s, t, p))
  PROVE  /\ Grows(r[t][T][s], Opposite(r, T, s, t, p, q))
         /\ Distinct(r[t][T][s]) => Distinct(Opposite(r, T, s, t, p, q))
<1> DEFINE forward == r[s][T][t]
           inverse == r[t][T][s]
           added   == IF InUse(inverse, q) THEN inverse ELSE AddSet(inverse, q, InverseIds(r, T, s, t))
           fresh   == Forward(r, T, s, t, p)
           result  == Opposite(r, T, s, t, p, q)
<1>1. Len(inverse) \in Nat /\ Grows(inverse, inverse)
  BY LenProperties, GrowsItself DEF WellKept
<1>2. CASE InUse(forward, p)
  <2>1. result = IF CanFill(forward, p) THEN FillProvenance(inverse, InverseProperties(T, p)) ELSE inverse
    BY <1>2 DEF Opposite
  <2>2. /\ Grows(inverse, FillProvenance(inverse, InverseProperties(T, p)))
        /\ Len(FillProvenance(inverse, InverseProperties(T, p))) = Len(inverse)
    BY FillProvenanceGrows
  <2>3. Distinct(inverse) => Distinct(FillProvenance(inverse, InverseProperties(T, p)))
    BY <1>1, <2>2, DistinctStays
  <2> QED
    BY <1>1, <2>1, <2>2, <2>3
<1>3. CASE ~InUse(forward, p)
  <2>1. result = IF Len(added) = Len(forward) + 1 THEN CopyIds(fresh, added) ELSE added
    BY <1>3 DEF Opposite
  <2>2. Len(fresh) = Len(forward) + 1
    <3>1. fresh = AddSet(forward, p, ForwardIds(r, T, s, t))
      BY <1>3 DEF Forward
    <3> QED
      BY <3>1, NewIdsAreNew, AddSetIdentified
  <2>3. Grows(inverse, added) /\ (Distinct(inverse) => Distinct(added)) /\ added \in Seq(PropertySet)
    <3>1. CASE InUse(inverse, q)
      BY <1>1, <3>1 DEF WellKept
    <3>2. CASE ~InUse(inverse, q)
      BY <3>2, NewIdsAreNew, AddSetGrows, AddSetDistinct, AddSetIdentified
    <3> QED
      BY <3>1, <3>2
  <2> HIDE DEF forward, inverse, added, fresh, result
  <2>4. Len(added) \in Nat
    BY <2>3, LenProperties
  <2>5. CASE Len(added) = Len(forward) + 1
    <3>1. WellKept(fresh) /\ Len(added) = Len(fresh)
      BY <2>2, <2>5 DEF fresh
    <3>2. Grows(added, CopyIds(fresh, added))
      BY <2>3, <3>1, CopyIdsGrows
    <3>3. Len(CopyIds(fresh, added)) = Len(added)
      BY <2>3, <3>1, CopyIdsWellKept
    <3>4. Grows(inverse, CopyIds(fresh, added))
      BY <1>1, <2>3, <2>4, <3>2, <3>3, GrowsOn
    <3>5. Distinct(added) => Distinct(CopyIds(fresh, added))
      BY <2>4, <3>2, <3>3, DistinctStays
    <3>6. result = CopyIds(fresh, added)
      BY <2>1, <2>5
    <3>7. Grows(inverse, result) /\ (Distinct(inverse) => Distinct(result))
      BY <2>3, <3>4, <3>5, <3>6
    <3> QED
      BY <3>7 DEF inverse, result
  <2>6. CASE Len(added) # Len(forward) + 1
    <3>1. result = added
      BY <2>1, <2>6
    <3>2. Grows(inverse, result) /\ (Distinct(inverse) => Distinct(result))
      BY <2>3, <3>1
    <3> QED
      BY <3>2 DEF inverse, result
  <2> QED
    BY <2>5, <2>6
<1> QED
  BY <1>2, <1>3

LEMMA AddTxGrows ==
  ASSUME NEW st, NEW edges, NEW T \in Types, NEW p \in PropertySet, NEW q \in PropertySet,
         StoreOK(st), StoreOK(AddTx(st, edges, T, p, q)),
         NEW f \in Files, NEW U \in Types, NEW g \in Files
  PROVE  /\ Grows(st.rel[f][U][g], AddTx(st, edges, T, p, q).rel[f][U][g])
         /\ Distinct(st.rel[f][U][g]) => Distinct(AddTx(st, edges, T, p, q).rel[f][U][g])
<1> DEFINE new == AddTx(st, edges, T, p, q)
           Inverts(a, b) == <<a, b>> \in edges /\ a # b /\ ShouldWriteInverse(T, a, b)
           Pair(a, b) == IF <<a, b>> \in edges THEN Forward(st.rel, T, a, b, p)
                         ELSE IF Inverts(b, a) THEN Opposite(st.rel, T, b, a, p, q)
                         ELSE st.rel[a][T][b]
<1>1. \A a, b \in Files, V \in Types : WellKept(st.rel[a][V][b])
  BY DEF StoreOK
<1>2. \A a, b \in Files : WellKept(new.rel[a][T][b])
  BY DEF StoreOK
<1>3. \A a, b \in Files : new.rel[a][T][b] = Pair(a, b)
  <2>1. st.rel \in [Files -> [Types -> [Files -> Seq(PropertySet)]]]
    BY DEF StoreOK
  <2>2. new.rel = [a \in Files |-> [st.rel[a] EXCEPT ![T] = [b \in Files |->
                    IF <<a, b>> \in edges THEN Forward(st.rel, T, a, b, p)
                    ELSE IF Inverts(b, a) THEN Opposite(st.rel, T, b, a, p, q)
                    ELSE @[b]]]]
    BY DEF AddTx
  <2> QED
    BY <2>1, <2>2
<1>4. \A a, b \in Files : <<a, b>> \in edges => WellKept(Forward(st.rel, T, a, b, p))
  BY <1>2, <1>3
<1>5. U # T => new.rel[f][U][g] = st.rel[f][U][g]
  BY AddTxRest
<1> HIDE DEF new
<1>6. Grows(st.rel[f][U][g], st.rel[f][U][g])
  BY <1>1, GrowsItself
<1>7. Grows(st.rel[f][T][g], Pair(f, g)) /\ (Distinct(st.rel[f][T][g]) => Distinct(Pair(f, g)))
  <2>1. CASE <<f, g>> \in edges
    BY <1>1, <2>1, ForwardGrows
  <2>2. CASE <<f, g>> \notin edges /\ Inverts(g, f)
    BY <1>1, <1>4, <2>2, OppositeGrows
  <2>3. CASE <<f, g>> \notin edges /\ ~Inverts(g, f)
    BY <1>1, <2>3, GrowsItself
  <2> QED
    BY <2>1, <2>2, <2>3
<1> HIDE DEF Pair
<1>8. /\ Grows(st.rel[f][U][g], new.rel[f][U][g])
      /\ Distinct(st.rel[f][U][g]) => Distinct(new.rel[f][U][g])
  <2>1. CASE U = T
    BY <1>3, <1>7, <2>1
  <2>2. CASE U # T
    BY <1>5, <1>6, <2>2
  <2> QED
    BY <2>1, <2>2
<1> QED
  BY <1>8 DEF new

\* A removal changes nothing but the two directions of its pair, and of each
\* takes one set.
LEMMA RemoveOneTakes ==
  ASSUME NEW st, NEW s \in Files, NEW T \in Types, NEW t \in Files, StoreOK(st),
         NEW i \in DOMAIN st.rel[s][T][t], NEW f \in Files, NEW U \in Types, NEW g \in Files
  PROVE  LET old == st.rel[f][U][g]
             new == RemoveOne(st, s, T, t, i).rel[f][U][g]
         IN /\ f = s /\ U = T /\ g = t => new = RemoveSet(old, i)
            /\ \/ new = old
               \/ /\ U = T /\ ((f = s /\ g = t) \/ (f = t /\ g = s))
                  /\ \E k \in DOMAIN old : new = RemoveSet(old, k)
<1> DEFINE sets == st.rel[s][T][t]
           inverse == st.rel[t][T][s]
           rid == sets[i].rid
           forward == RemoveSet(sets, i)
           left == IF FindsInverse(s, t) THEN InverseWithout(inverse, rid) ELSE inverse
           new == RemoveOne(st, s, T, t, i).rel[f][U][g]
<1>1. WellKept(inverse)
  BY DEF StoreOK
<1>2. new = IF U = T /\ f = s /\ g = t THEN forward
            ELSE IF U = T /\ f = t /\ g = s THEN left ELSE st.rel[f][U][g]
  BY DEF RemoveOne, StorePair, StoreOK
<1> HIDE DEF new
<1>3. left = inverse \/ \E k \in DOMAIN inverse : left = RemoveSet(inverse, k)
  <2> HIDE DEF inverse, rid
  <2>1. CASE FindsInverse(s, t) /\ FindSet(inverse, rid) # {}
    BY <1>1, <2>1, FindSetFirst DEF InverseWithout
  <2>2. CASE ~(FindsInverse(s, t) /\ FindSet(inverse, rid) # {})
    BY <2>2 DEF InverseWithout
  <2> QED
    BY <2>1, <2>2
<1> HIDE DEF left
<1>4. CASE U = T /\ f = s /\ g = t
  <2>1. new = RemoveSet(st.rel[f][U][g], i)
    BY <1>2, <1>4
  <2> QED
    BY <1>4, <2>1 DEF new
<1>5. CASE ~(U = T /\ f = s /\ g = t) /\ U = T /\ f = t /\ g = s
  <2>1. new = left /\ st.rel[f][U][g] = inverse
    BY <1>2, <1>5
  <2> QED
    BY <1>3, <1>5, <2>1 DEF new
<1>6. CASE ~(U = T /\ f = s /\ g = t) /\ ~(U = T /\ f = t /\ g = s)
  BY <1>2, <1>6 DEF new
<1> QED
  BY <1>4, <1>5, <1>6

-----------------------------------------------------------------------------
(* Read-only relations, where every relation has its opposite and clients   *)
(* remove without the override.                                             *)

\* What a set but the i-th was the same relation as is still there.
KeptBut(old, i, new) ==
  \A j \in 1 .. Len(old) : j # i => \E k \in 1 .. Len(new) : Identity(new[k]) = Identity(old[j])

ReadOnlyStays(old, new) == \A j \in DOMAIN old : old[j].readonly => SameAs(new, old[j]) # {}

LEMMA KeptButStays ==
  ASSUME NEW old, NEW new, NEW i, WellKept(old), WellKept(new), KeptBut(old, i, new),
         i \in DOMAIN old => ~old[i].readonly
  PROVE  ReadOnlyStays(old, new)
<1>1. DOMAIN old = 1 .. Len(old) /\ DOMAIN new = 1 .. Len(new)
  BY LenProperties DEF WellKept
<1> QED
  BY <1>1 DEF KeptBut, ReadOnlyStays, SameAs

LEMMA GrowsKept ==
  ASSUME NEW old, NEW new, WellKept(old), WellKept(new), Grows(old, new)
  PROVE  KeptBut(old, 0, new)
<1>1. Len(old) \in Nat /\ Len(new) \in Nat
  BY LenProperties DEF WellKept
<1> QED
  BY <1>1 DEF Grows, KeptBut

LEMMA RemovedKept ==
  ASSUME NEW old, NEW i \in DOMAIN old, WellKept(old)
  PROVE  KeptBut(old, i, RemoveSet(old, i))
<1>1. DOMAIN old = 1 .. Len(old) /\ Len(old) \in Nat
  BY LenProperties DEF WellKept
<1>2. Leaves(old, i, RemoveSet(old, i))
  BY RemoveSetLeaves
<1> QED
  BY <1>1, <1>2, LeftAt DEF KeptBut

LEMMA ReplacedKept ==
  ASSUME NEW old, NEW i \in DOMAIN old, NEW p \in PropertySet, WellKept(old)
  PROVE  /\ KeptBut(old, i, ReplaceSet(old, i, p))
         /\ WellKept(ReplaceSet(old, i, p)) /\ i \in DOMAIN ReplaceSet(old, i, p)
<1>1. DOMAIN old = 1 .. Len(old) /\ Len(old) \in Nat
  BY LenProperties DEF WellKept
<1>2. WellKept(ReplaceSet(old, i, p)) /\ DOMAIN ReplaceSet(old, i, p) = DOMAIN old
  BY ReplaceSetWellKept DEF ReplaceSet
<1>3. Len(ReplaceSet(old, i, p)) = Len(old)
  BY <1>1, <1>2, LenProperties DEF WellKept
<1>4. \A j \in 1 .. Len(old) : j # i => ReplaceSet(old, i, p)[j] = old[j]
  BY <1>1 DEF ReplaceSet
<1> QED
  BY <1>2, <1>3, <1>4 DEF KeptBut

LEMMA ReplacedThenRemovedKept ==
  ASSUME NEW old, NEW i \in DOMAIN old, NEW p \in PropertySet, WellKept(old)
  PROVE  KeptBut(old, i, RemoveSet(ReplaceSet(old, i, p), i))
<1> DEFINE between == ReplaceSet(old, i, p)
<1>1. DOMAIN old = 1 .. Len(old) /\ Len(old) \in Nat
  BY LenProperties DEF WellKept
<1>2. WellKept(between) /\ i \in DOMAIN between
  BY ReplacedKept
<1>3. KeptBut(between, i, RemoveSet(between, i))
  BY <1>2, RemovedKept
<1>4. Len(between) = Len(old)
  <2>1. DOMAIN between = DOMAIN old
    BY DEF ReplaceSet
  <2> QED
    BY <1>1, <1>2, <2>1, LenProperties DEF WellKept
<1>5. \A j \in 1 .. Len(old) : j # i => between[j] = old[j]
  BY <1>1 DEF ReplaceSet
<1> HIDE DEF between
<1>6. KeptBut(old, i, RemoveSet(between, i))
  BY <1>3, <1>4, <1>5 DEF KeptBut
<1> QED
  BY <1>6 DEF between

EveryInverse == \A T \in Types, f, g \in Files : ShouldWriteInverse(T, f, g)

\* <<f, U, g>> is a direction of the relations of type T between s and t.
IsPair(f, U, g, s, T, t) == U = T /\ ((f = s /\ g = t) \/ (f = t /\ g = s))

LEMMA RemoveOneTakesSame ==
  ASSUME NEW st, StoreOK(st), NEW there \in SUBSET Files, InStep(st, there), EveryInverse,
         NEW s \in there, NEW T \in Types, NEW t \in Files, NEW i \in DOMAIN st.rel[s][T][t],
         t \in there /\ t # s => FindsInverse(s, t),
         NEW f \in there, NEW U \in Types, NEW g \in Files
  PROVE  IF IsPair(f, U, g, s, T, t)
         THEN /\ st.rel[f][U][g] = st.rel[s][T][t]
              /\ RemoveOne(st, s, T, t, i).rel[f][U][g] = RemoveSet(st.rel[s][T][t], i)
         ELSE RemoveOne(st, s, T, t, i).rel[f][U][g] = st.rel[f][U][g]
<1> DEFINE new == RemoveOne(st, s, T, t, i)
<1>1. /\ new.rel[s][T][t] = RemoveSet(st.rel[s][T][t], i)
      /\ ~IsPair(f, U, g, s, T, t) => new.rel[f][U][g] = st.rel[f][U][g]
  BY RemoveOneTakes DEF IsPair
<1>2. InStep(new, there)
  BY RemoveOneInStep
<1> HIDE DEF new
<1>3. CASE f = s /\ g = t /\ U = T
  BY <1>1, <1>3 DEF IsPair, new
<1>4. CASE f = t /\ g = s /\ U = T
  <2>1. ShouldWriteInverse(T, t, s)
    BY DEF EveryInverse
  <2>2. st.rel[t][T][s] = st.rel[s][T][t] /\ new.rel[t][T][s] = new.rel[s][T][t]
    BY <1>2, <1>4, <2>1 DEF InStep
  <2> QED
    BY <1>1, <1>4, <2>2 DEF IsPair, new
<1>5. CASE ~IsPair(f, U, g, s, T, t)
  BY <1>1, <1>5 DEF new
<1> QED
  BY <1>3, <1>4, <1>5 DEF IsPair

LEMMA ReplaceTakesSame ==
  ASSUME NEW st, StoreOK(st), NEW there \in SUBSET Files, InStep(st, there), EveryInverse, SameLabelsNoCopies,
         NEW s \in there, NEW T \in Types, NEW t \in Files, NEW i \in DOMAIN st.rel[s][T][t],
         NEW p \in PropertySet, p \in Updates \ {NoProperties}, t \in there /\ t # s => FindsInverse(s, t),
         NEW f \in there, NEW U \in Types, NEW g \in Files
  PROVE  IF IsPair(f, U, g, s, T, t)
         THEN /\ st.rel[f][U][g] = st.rel[s][T][t]
              /\ Replace(st, s, T, t, i, p).rel[f][U][g] = ReplaceSet(st.rel[s][T][t], i, p)
         ELSE Replace(st, s, T, t, i, p).rel[f][U][g] = st.rel[f][U][g]
<1> DEFINE new == Replace(st, s, T, t, i, p)
<1>1. new.rel[s][T][t] = ReplaceSet(st.rel[s][T][t], i, p)
  BY ReplaceOK
<1>2. ~IsPair(f, U, g, s, T, t) => new.rel[f][U][g] = st.rel[f][U][g]
  BY DEF Replace, StorePair, StoreOK, IsPair
<1>3. InStep(new, there)
  BY ReplaceInStep
<1> HIDE DEF new
<1>4. CASE f = s /\ g = t /\ U = T
  BY <1>1, <1>4 DEF IsPair, new
<1>5. CASE f = t /\ g = s /\ U = T
  <2>1. ShouldWriteInverse(T, t, s)
    BY DEF EveryInverse
  <2>2. st.rel[t][T][s] = st.rel[s][T][t] /\ new.rel[t][T][s] = new.rel[s][T][t]
    BY <1>3, <1>5, <2>1 DEF InStep
  <2> QED
    BY <1>1, <1>5, <2>2 DEF IsPair, new
<1>6. CASE ~IsPair(f, U, g, s, T, t)
  BY <1>2, <1>6 DEF new
<1> QED
  BY <1>4, <1>5, <1>6 DEF IsPair

\* What the theorem says of a step.
AllReadOnlyStay ==
  \A f \in files', g \in Files, T \in Types : ReadOnlyStays(rel[f][T][g], rel'[f][T][g])

LEMMA StoredSets ==
  ASSUME InStepInv, NEW f \in Files, NEW T \in Types, NEW g \in Files
  PROVE  WellKept(rel[f][T][g]) /\ Store.rel[f][T][g] = rel[f][T][g]
BY StoreInStep DEF StoreOK, Store

LEMMA UnchangedReadOnly ==
  ASSUME NEW old, WellKept(old)
  PROVE  ReadOnlyStays(old, old)
BY DEF ReadOnlyStays, SameAs

LEMMA CommitReadOnly ==
  ASSUME NEW st, Commit(st), UNCHANGED files,
         \A f \in files, g \in Files, T \in Types : ReadOnlyStays(rel[f][T][g], st.rel[f][T][g])
  PROVE  AllReadOnlyStay
BY DEF Commit, AllReadOnlyStay

LEMMA SameAttributesReadOnly ==
  ASSUME InStepInv, UNCHANGED attributes, files' \subseteq files
  PROVE  AllReadOnlyStay
<1>1. \A f \in files, g \in Files, T \in Types : ReadOnlyStays(rel[f][T][g], rel[f][T][g])
  BY StoreInStep, StoredSets, UnchangedReadOnly
<1> QED
  BY <1>1 DEF AllReadOnlyStay, attributes

\* What only grows keeps what is read-only.
LEMMA AddTxReadOnly ==
  ASSUME InStepInv, NEW edges \in SUBSET (Files \X Files), NEW T \in Types,
         NEW p \in PropertySet, NEW q \in PropertySet,
         FitsBounds(AddTx(Store, edges, T, p, q)),
         Commit(AddTx(Store, edges, T, p, q)), UNCHANGED files
  PROVE  AllReadOnlyStay
<1> DEFINE new == AddTx(Store, edges, T, p, q)
<1>1. StoreOK(new)
  BY StoreInStep, AddTxOK
<1>2. ASSUME NEW f \in files, NEW g \in Files, NEW U \in Types
      PROVE  ReadOnlyStays(rel[f][U][g], new.rel[f][U][g])
  <2>1. f \in Files
    BY StoreInStep
  <2>2. Grows(Store.rel[f][U][g], new.rel[f][U][g])
    BY <1>1, <2>1, StoreInStep, AddTxGrows
  <2>3. WellKept(rel[f][U][g]) /\ Store.rel[f][U][g] = rel[f][U][g] /\ WellKept(new.rel[f][U][g])
    BY <1>1, <2>1, StoredSets DEF StoreOK
  <2> HIDE DEF new
  <2>4. KeptBut(rel[f][U][g], 0, new.rel[f][U][g])
    BY <2>2, <2>3, GrowsKept
  <2>5. 0 \notin DOMAIN rel[f][U][g]
    BY <2>3, LenProperties DEF WellKept
  <2> QED
    BY <2>3, <2>4, <2>5, KeptButStays
<1> HIDE DEF new
<1> QED
  BY <1>2, CommitReadOnly DEF new

LEMMA AddRelationReadOnly ==
  ASSUME InStepInv, NEW source \in Files, NEW target \in Files, NEW T \in Types,
         NEW p \in Inputs, NEW sender \in Senders, NEW own \in OwnLabels,
         AddRelation(source, target, T, p, sender, own)
  PROVE  AllReadOnlyStay
<1> DEFINE s     == IF Swaps(T, source, target) THEN target ELSE source
           t     == IF Swaps(T, source, target) THEN source ELSE target
           added == AddedProperties(T, p, sender)
           q     == AddedInverse(T, added, own)
           new   == AddTx(Store, {<<s, t>>}, T, added, q)
<1>1. UNCHANGED files
  BY DEF AddRelation
<1>2. (FitsBounds(new) /\ Commit(new)) \/ UNCHANGED attributes
  BY DEF AddRelation, Fail
<1>3. added \in PropertySet /\ q \in PropertySet
  BY AddedPropertiesType DEF InStepInv, ListedInv
<1>4. {<<s, t>>} \in SUBSET (Files \X Files)
  OBVIOUS
<1> HIDE DEF s, t, added, q
<1> QED
  BY <1>1, <1>2, <1>3, <1>4, AddTxReadOnly, SameAttributesReadOnly

LEMMA ApplyStickyReadOnly ==
  ASSUME InStepInv, NEW new \in SUBSET Files, ApplySticky(new)
  PROVE  AllReadOnlyStay
<1> DEFINE edges == new \X StickyClassifications
           q     == InverseProperties(Association, Plain)
           st    == AddTx(Store, edges, Association, Plain, q)
<1>1. Association \in Types /\ UNCHANGED files
  BY DEF ApplySticky
<1>2. Plain \in PropertySet
  BY DEF Plain, PropertySet, Labels
<1>3. q \in PropertySet
  BY <1>1, <1>2, InversePropertiesType
<1>4. (FitsBounds(st) /\ Commit(st)) \/ UNCHANGED attributes
  BY DEF ApplySticky
<1>5. edges \in SUBSET (Files \X Files)
  BY DEF StickyClassifications, InStepInv, ListedInv, RelationsInv, FilesOK
<1> HIDE DEF edges, q
<1> QED
  BY <1>1, <1>2, <1>3, <1>4, <1>5, AddTxReadOnly, SameAttributesReadOnly

\* Both directions lose the set that was meant, which is not read-only.
LEMMA RemoveRelationReadOnly ==
  ASSUME InStepInv, EveryInverse, NEW s \in Files, NEW T \in Types, NEW t \in Files, NEW rid,
         RemoveRelation(s, T, t, rid, "plain")
  PROVE  AllReadOnlyStay
<1>1. PICK i \in Addressed(rel[s][T][t], rid, "plain" = "override") : Commit(RemoveOne(Store, s, T, t, i))
  BY DEF RemoveRelation
<1> DEFINE new == RemoveOne(Store, s, T, t, i)
<1>2. i \in DOMAIN rel[s][T][t] /\ ~rel[s][T][t][i].readonly /\ i \in DOMAIN Store.rel[s][T][t]
  BY AddressedIsThere DEF Addressed, Store
<1>3. UNCHANGED files /\ s \in files
  BY DEF RemoveRelation
<1>4. t \in files /\ t # s => FindsInverse(s, t)
  BY <1>2, InverseIsFound
<1>5. StoreOK(new)
  BY <1>2, StoreInStep, RemoveOneOK
<1>6. ASSUME NEW f \in files, NEW g \in Files, NEW U \in Types
      PROVE  ReadOnlyStays(rel[f][U][g], new.rel[f][U][g])
  <2>1. f \in Files
    BY StoreInStep
  <2>2. IF IsPair(f, U, g, s, T, t)
        THEN rel[f][U][g] = rel[s][T][t] /\ new.rel[f][U][g] = RemoveSet(rel[s][T][t], i)
        ELSE new.rel[f][U][g] = rel[f][U][g]
    <3>1. IF IsPair(f, U, g, s, T, t)
          THEN Store.rel[f][U][g] = Store.rel[s][T][t] /\ new.rel[f][U][g] = RemoveSet(Store.rel[s][T][t], i)
          ELSE new.rel[f][U][g] = Store.rel[f][U][g]
      BY <1>2, <1>3, <1>4, StoreInStep, RemoveOneTakesSame
    <3> QED
      BY <2>1, <3>1, StoredSets
  <2>3. WellKept(rel[f][U][g]) /\ WellKept(new.rel[f][U][g]) /\ WellKept(rel[s][T][t])
    BY <1>5, <2>1, StoredSets DEF StoreOK
  <2> HIDE DEF new
  <2>4. CASE IsPair(f, U, g, s, T, t)
    <3>1. KeptBut(rel[f][U][g], i, new.rel[f][U][g])
      BY <1>2, <2>2, <2>3, <2>4, RemovedKept
    <3>2. ~rel[f][U][g][i].readonly
      BY <1>2, <2>2, <2>4
    <3> QED
      BY <2>3, <3>1, <3>2, KeptButStays
  <2>5. CASE ~IsPair(f, U, g, s, T, t)
    BY <2>2, <2>3, <2>5, UnchangedReadOnly
  <2> QED
    BY <2>4, <2>5
<1> HIDE DEF new
<1> QED
  BY <1>1, <1>3, <1>6, CommitReadOnly DEF new

\* All sets of a target go with their opposites, where none is read-only.
LEMMA RemoveWholeReadOnly ==
  ASSUME InStepInv, EveryInverse, NEW s \in files, NEW gone \in SUBSET (Types \X Files),
         \A k \in gone : ReadOnlyAt(rel[s][k[1]][k[2]]) = {},
         Commit(RemoveWhole(Store, s, gone)), UNCHANGED files
  PROVE  AllReadOnlyStay
<1> DEFINE new == RemoveWhole(Store, s, gone)
           Goes(f, T, g) == (f = s /\ <<T, g>> \in gone) \/ (g = s /\ <<T, f>> \in gone /\ FindsInverse(s, f))
<1>0. files \subseteq Files
  BY StoreInStep
<1>1. \A f, g \in Files, T \in Types : new.rel[f][T][g] = IF Goes(f, T, g) THEN <<>> ELSE rel[f][T][g]
  BY DEF RemoveWhole, Store
<1>2. ASSUME NEW g \in Files, NEW T \in Types, <<T, g>> \in gone
      PROVE  ReadOnlyAt(rel[s][T][g]) = {}
  BY <1>2
<1>3. ASSUME NEW f \in files, NEW g \in Files, NEW T \in Types, Goes(f, T, g)
      PROVE  ReadOnlyAt(rel[f][T][g]) = {}
  <2>1. CASE f = s /\ <<T, g>> \in gone
    BY <1>2, <2>1
  <2>2. CASE g = s /\ <<T, f>> \in gone
    <3>1. ReadOnlyAt(rel[s][T][f]) = {}
      BY <1>0, <1>2, <2>2
    <3>2. rel[f][T][s] = rel[s][T][f]
      BY <1>0 DEF InStepInv, InStep, EveryInverse, Store
    <3> QED
      BY <2>2, <3>1, <3>2
  <2> QED
    BY <1>3, <2>1, <2>2
<1> HIDE DEF new, Goes
<1>4. ASSUME NEW f \in files, NEW g \in Files, NEW T \in Types
      PROVE  ReadOnlyStays(rel[f][T][g], new.rel[f][T][g])
  <2>1. CASE Goes(f, T, g)
    BY <1>3, <2>1 DEF ReadOnlyStays, ReadOnlyAt
  <2>2. CASE ~Goes(f, T, g)
    <3>1. WellKept(rel[f][T][g]) /\ new.rel[f][T][g] = rel[f][T][g]
      BY <1>0, <1>1, <2>2, StoredSets
    <3> QED
      BY <3>1, UnchangedReadOnly
  <2> QED
    BY <2>1, <2>2
<1> QED
  BY <1>4, CommitReadOnly DEF new

LEMMA RemoveAllSetsReadOnly ==
  ASSUME InStepInv, EveryInverse, NEW s \in Files, NEW T \in Types, NEW t \in Files,
         RemoveRelationAllSets(s, T, t, "plain")
  PROVE  AllReadOnlyStay
<1>1. /\ s \in files /\ UNCHANGED files
      /\ ReadOnlyAt(rel[s][T][t]) = {}
      /\ Commit(RemoveWhole(Store, s, {<<T, t>>}))
  BY DEF RemoveRelationAllSets, RemovesAll
<1>2. {<<T, t>>} \in SUBSET (Types \X Files)
  OBVIOUS
<1>3. \A k \in {<<T, t>>} : ReadOnlyAt(rel[s][k[1]][k[2]]) = {}
  BY <1>1
<1> QED
  BY <1>1, <1>2, <1>3, RemoveWholeReadOnly

LEMMA RemoveAllRelationsReadOnly ==
  ASSUME InStepInv, EveryInverse, NEW s \in Files, NEW types \in SUBSET Types,
         RemoveAllRelations(s, types, "plain")
  PROVE  AllReadOnlyStay
<1> DEFINE gone == {k \in types \X Files : /\ RemovesAll(rel[s][k[1]][k[2]], "plain")
                                           /\ "plain" = "stale" => Stale(rel[s][k[1]][k[2]], k[2])}
<1>1. gone \in SUBSET (Types \X Files)
  OBVIOUS
<1>2. s \in files /\ Commit(RemoveWhole(Store, s, gone)) /\ UNCHANGED files
  BY DEF RemoveAllRelations
<1>3. \A k \in gone : ReadOnlyAt(rel[s][k[1]][k[2]]) = {}
  BY DEF RemovesAll
<1> HIDE DEF gone
<1> QED
  BY <1>1, <1>2, <1>3, RemoveWholeReadOnly

\* The set that is updated has its new properties in both directions.
LEMMA UpdatedTakesSame ==
  ASSUME InStepInv, EveryInverse, SameLabelsNoCopies, NEW s \in files, NEW T \in Types, NEW t \in Files,
         NEW i \in DOMAIN rel[s][T][t], NEW st, NEW properties,
         Updated(st, s, T, t, i, properties, "plain"),
         NEW f \in files, NEW U \in Types, NEW g \in Files
  PROVE  IF IsPair(f, U, g, s, T, t)
         THEN /\ rel[f][U][g] = rel[s][T][t]
              /\ st.rel[f][U][g] = st.rel[s][T][t]
              /\ KeptBut(rel[s][T][t], i, st.rel[s][T][t])
              /\ KeptBut(rel[s][T][t], i, RemoveSet(st.rel[s][T][t], i))
         ELSE st.rel[f][U][g] = rel[f][U][g]
<1> DEFINE sets == rel[s][T][t]
<1>1. f \in Files /\ s \in Files /\ files \in SUBSET Files
  BY StoreInStep
<1>2. WellKept(sets) /\ Store.rel[s][T][t] = sets /\ Store.rel[f][U][g] = rel[f][U][g]
  BY <1>1, StoredSets
<1>3. t \in files /\ t # s => FindsInverse(s, t)
  BY <1>1, InverseIsFound
<1>4. IsPair(f, U, g, s, T, t) => rel[f][U][g] = sets
  <2>1. CASE f = t /\ g = s /\ U = T
    <3>1. ShouldWriteInverse(T, t, s)
      BY <1>1 DEF EveryInverse
    <3>2. \A a, b \in files : ShouldWriteInverse(T, a, b) => rel[a][T][b] = rel[b][T][a]
      BY DEF InStepInv, InStep, Store
    <3> QED
      BY <2>1, <3>1, <3>2
  <2>2. CASE f = s /\ g = t /\ U = T
    BY <2>2
  <2> QED
    BY <2>1, <2>2 DEF IsPair
<1>5. CASE st = Store
  <2>1. Grows(sets, sets)
    BY <1>2, GrowsItself
  <2>2. KeptBut(sets, i, sets) /\ KeptBut(sets, i, RemoveSet(sets, i))
    BY <1>2, RemovedKept DEF KeptBut
  <2> QED
    BY <1>2, <1>4, <1>5, <2>2
<1>6. CASE /\ properties \in PropertySet /\ properties \in Updates \ {NoProperties}
           /\ st = Replace(Store, s, T, t, i, properties)
  <2>1. i \in DOMAIN Store.rel[s][T][t]
    BY <1>2
  <2>2. IF IsPair(f, U, g, s, T, t)
        THEN /\ Store.rel[f][U][g] = Store.rel[s][T][t]
             /\ st.rel[f][U][g] = ReplaceSet(Store.rel[s][T][t], i, properties)
        ELSE st.rel[f][U][g] = Store.rel[f][U][g]
    BY <1>3, <1>6, <2>1, StoreInStep, ReplaceTakesSame
  <2>3. st.rel[s][T][t] = ReplaceSet(sets, i, properties)
    BY <1>1, <1>2, <1>6, <2>1, StoreInStep, ReplaceOK
  <2>4. KeptBut(sets, i, ReplaceSet(sets, i, properties))
    BY <1>2, <1>6, ReplacedKept
  <2>5. KeptBut(sets, i, RemoveSet(ReplaceSet(sets, i, properties), i))
    BY <1>2, <1>6, ReplacedThenRemovedKept
  <2> QED
    BY <1>2, <1>4, <2>2, <2>3, <2>4, <2>5
<1> QED
  BY <1>5, <1>6 DEF Updated

\* What the directions of the moved relation and all others have after a move.
LEMMA MoveKept ==
  ASSUME InStepInv, EveryInverse, SameLabelsNoCopies, NEW s \in files, NEW T \in Types, NEW t \in Files,
         NEW i \in DOMAIN rel[s][T][t], NEW st, NEW properties,
         Updated(st, s, T, t, i, properties, "plain"),
         NEW U \in Types, NEW to \in Files, Moves(st, s, T, t, i, U, to),
         NEW f \in files, NEW V \in Types, NEW g \in Files
  PROVE  /\ WellKept(rel'[f][V][g])
         /\ KeptBut(rel[f][V][g], IF IsPair(f, V, g, s, T, t) THEN i ELSE 0, rel'[f][V][g])
<1> DEFINE set == WithoutId(st.rel[s][T][t][i])
           added == AddTx(st, {<<s, to>>}, U, set, InverseProperties(U, set))
           final == RemoveOne(added, s, T, t, i)
<1>1. f \in Files /\ s \in Files /\ files \in SUBSET Files
  BY StoreInStep
<1>2. StoreOK(added) /\ added.rel[s][T][t] = st.rel[s][T][t] /\ rel' = final.rel
  BY DEF Moves, Commit
<1>3. StoreOK(st) /\ i \in DOMAIN st.rel[s][T][t] /\ i \in DOMAIN added.rel[s][T][t]
  BY <1>2 DEF Updated
<1>4. InStep(st, files) /\ (t \in files /\ t # s => FindsInverse(s, t))
  BY <1>1, UpdatedInStep
<1>5. InStep(added, files) /\ set \in PropertySet /\ InverseProperties(U, set) = set
  <2>1. SameLabelsNoCopies /\ s \in Files /\ files \in SUBSET Files /\ StoreOK(st) /\ InStep(st, files)
        /\ i \in DOMAIN st.rel[s][T][t]
    BY <1>1, <1>3, <1>4
  <2>2. InStep(added, files)
    BY <2>1, MovedInStep
  <2>3. set \in PropertySet /\ InverseProperties(U, set) = set
    BY <2>1, MovedSet
  <2> QED
    BY <2>2, <2>3
<1>6. Grows(st.rel[f][V][g], added.rel[f][V][g])
  BY <1>1, <1>2, <1>3, <1>5, AddTxGrows
<1> HIDE DEF set, added
<1>7. StoreOK(final)
  BY <1>1, <1>2, <1>3, RemoveOneOK
<1>8. IF IsPair(f, V, g, s, T, t)
      THEN final.rel[f][V][g] = RemoveSet(added.rel[s][T][t], i)
      ELSE final.rel[f][V][g] = added.rel[f][V][g]
  BY <1>1, <1>2, <1>3, <1>4, <1>5, RemoveOneTakesSame
<1> HIDE DEF final
<1>9. /\ WellKept(rel'[f][V][g]) /\ WellKept(added.rel[f][V][g])
      /\ WellKept(st.rel[f][V][g])
  BY <1>1, <1>2, <1>3, <1>7 DEF StoreOK
<1>10. CASE IsPair(f, V, g, s, T, t)
  <2>1. rel[f][V][g] = rel[s][T][t] /\ KeptBut(rel[s][T][t], i, RemoveSet(st.rel[s][T][t], i))
    BY <1>10, UpdatedTakesSame
  <2>2. rel'[f][V][g] = RemoveSet(st.rel[s][T][t], i)
    BY <1>2, <1>8, <1>10
  <2> QED
    BY <1>9, <1>10, <2>1, <2>2
<1>11. CASE ~IsPair(f, V, g, s, T, t)
  <2>1. st.rel[f][V][g] = rel[f][V][g]
    BY <1>11, UpdatedTakesSame
  <2>2. KeptBut(st.rel[f][V][g], 0, added.rel[f][V][g])
    BY <1>6, <1>9, GrowsKept
  <2>3. rel'[f][V][g] = added.rel[f][V][g]
    BY <1>2, <1>8, <1>11
  <2> QED
    BY <1>9, <1>11, <2>1, <2>2, <2>3
<1> QED
  BY <1>10, <1>11

LEMMA UpdateRelationReadOnly ==
  ASSUME InStepInv, EveryInverse, SameLabelsNoCopies, NEW s \in Files, NEW T \in Types, NEW t \in Files,
         NEW rid, NEW properties \in Updates, NEW newTarget \in Files \cup {NoFile},
         NEW newType \in Types \cup {NoType},
         UpdateRelation(s, T, t, rid, properties, newTarget, newType, "plain")
  PROVE  AllReadOnlyStay
<1>1. PICK st : \E i \in DOMAIN rel[s][T][t] : Updated(st, s, T, t, i, properties, "plain")
  BY UpdateInParts DEF InStepInv, ListedInv
<1>2. PICK i \in DOMAIN rel[s][T][t] : Updated(st, s, T, t, i, properties, "plain")
  BY <1>1
<1>3. UNCHANGED files /\ s \in files /\ files \subseteq Files
  BY StoreInStep DEF UpdateRelation
<1>4. ~rel[s][T][t][i].readonly /\ StoreOK(st)
  BY <1>2 DEF Updated
<1>5. ASSUME NEW f \in files, NEW U \in Types, NEW g \in Files, WellKept(rel'[f][U][g]),
             KeptBut(rel[f][U][g], IF IsPair(f, U, g, s, T, t) THEN i ELSE 0, rel'[f][U][g])
      PROVE  ReadOnlyStays(rel[f][U][g], rel'[f][U][g])
  <2>1. WellKept(rel[f][U][g])
    BY <1>3, StoredSets
  <2>2. 0 \notin DOMAIN rel[f][U][g]
    BY <2>1, LenProperties DEF WellKept
  <2>3. IsPair(f, U, g, s, T, t) => ~rel[f][U][g][i].readonly
    <3>1. IsPair(f, U, g, s, T, t) => rel[f][U][g] = rel[s][T][t]
      BY <1>2, <1>3, UpdatedTakesSame
    <3> QED
      BY <1>4, <3>1
  <2> QED
    BY <1>5, <2>1, <2>2, <2>3, KeptButStays
<1>6. CASE Commit(st)
  <2>1. ASSUME NEW f \in files, NEW U \in Types, NEW g \in Files
        PROVE  /\ WellKept(rel'[f][U][g])
               /\ KeptBut(rel[f][U][g], IF IsPair(f, U, g, s, T, t) THEN i ELSE 0, rel'[f][U][g])
    <3>1. rel' = st.rel /\ WellKept(st.rel[f][U][g])
      BY <1>3, <1>4, <1>6 DEF Commit, StoreOK
    <3>2. CASE IsPair(f, U, g, s, T, t)
      BY <1>2, <1>3, <3>1, <3>2, UpdatedTakesSame
    <3>3. CASE ~IsPair(f, U, g, s, T, t)
      <4>1. st.rel[f][U][g] = rel[f][U][g]
        BY <1>2, <1>3, <3>3, UpdatedTakesSame
      <4>2. KeptBut(rel[f][U][g], 0, rel[f][U][g])
        BY DEF KeptBut
      <4> QED
        BY <3>1, <3>3, <4>1, <4>2
    <3> QED
      BY <3>2, <3>3
  <2> QED
    BY <1>3, <1>5, <2>1 DEF AllReadOnlyStay
<1>7. ASSUME NEW to \in Files, NEW U \in Types, Moves(st, s, T, t, i, U, to)
      PROVE  AllReadOnlyStay
  <2>1. ASSUME NEW f \in files, NEW V \in Types, NEW g \in Files
        PROVE  /\ WellKept(rel'[f][V][g])
               /\ KeptBut(rel[f][V][g], IF IsPair(f, V, g, s, T, t) THEN i ELSE 0, rel'[f][V][g])
    BY <1>2, <1>3, <1>7, MoveKept
  <2> QED
    BY <1>3, <1>5, <2>1 DEF AllReadOnlyStay
<1>8. CASE UNCHANGED attributes
  BY <1>3, <1>8, SameAttributesReadOnly
<1> QED
  BY <1>2, <1>6, <1>7, <1>8 DEF Updated

LEMMA DeleteFileReadOnly ==
  ASSUME InStepInv, NEW d \in Files, DeleteFile(d)
  PROVE  AllReadOnlyStay
<1>1. rel \in [Files -> [Types -> [Files -> Seq(PropertySet)]]] /\ files \subseteq Files
  BY StoreInStep DEF StoreOK, Store
<1>2. files' = files \ {d}
  BY DEF DeleteFile
<1>3. ASSUME NEW f \in files', NEW g \in Files, NEW T \in Types
      PROVE  rel'[f][T][g] = rel[f][T][g] /\ WellKept(rel[f][T][g])
  <2>1. f # d /\ f \in Files
    BY <1>1, <1>2
  <2> QED
    BY <1>1, <2>1, StoredSets DEF DeleteFile
<1> QED
  BY <1>3, UnchangedReadOnly DEF AllReadOnlyStay

PlainRemovals == RemoveModes \subseteq {"plain"}

LEMMA NextReadOnly ==
  ASSUME SameLabelsNoCopies, EveryInverse, PlainRemovals, InStepInv, [Next]_vars
  PROVE  AllReadOnlyStay
<1>0. SameLabelsNoCopies /\ EveryInverse /\ \A mode \in RemoveModes : mode = "plain"
  BY DEF PlainRemovals
<1>1. ASSUME NEW s \in Files, NEW t \in Files, NEW T \in Types,
             \E p \in Inputs, sender \in Senders, own \in OwnLabels : AddRelation(s, t, T, p, sender, own)
      PROVE  AllReadOnlyStay
  BY <1>1, AddRelationReadOnly
<1>2. ASSUME NEW s \in Files, NEW t \in Files, NEW T \in Types,
             \E rid \in RequestIds(s, T, t), mode \in OneModes : RemoveRelation(s, T, t, rid, mode)
      PROVE  AllReadOnlyStay
  BY <1>0, <1>2, RemoveRelationReadOnly DEF OneModes
<1>3. ASSUME NEW s \in Files, NEW t \in Files, NEW T \in Types,
             \E mode \in OneModes : RemoveRelationAllSets(s, T, t, mode)
      PROVE  AllReadOnlyStay
  BY <1>0, <1>3, RemoveAllSetsReadOnly DEF OneModes
<1>4. ASSUME NEW s \in Files, NEW t \in Files, NEW T \in Types,
             NEW rid \in RequestIds(s, T, t), NEW p \in Updates, NEW to \in Files \cup {NoFile},
             NEW mode \in OneModes, NEW U \in Types \cup (IF to = NoFile THEN {NoType} ELSE {}),
             UpdateRelation(s, T, t, rid, p, to, U, mode)
      PROVE  AllReadOnlyStay
  <2>1. U \in Types \cup {NoType} /\ mode = "plain"
    BY <1>0 DEF OneModes
  <2> QED
    BY <1>0, <1>4, <2>1, UpdateRelationReadOnly
<1>5. ASSUME NEW s \in Files, NEW types \in {Types} \cup {{T} : T \in Types}, NEW mode \in RemoveModes,
             RemoveAllRelations(s, types, mode)
      PROVE  AllReadOnlyStay
  <2>1. types \in SUBSET Types
    OBVIOUS
  <2> QED
    BY <1>0, <1>5, <2>1, RemoveAllRelationsReadOnly
<1>6. ASSUME NEW new \in SUBSET Files, ApplySticky(new)
      PROVE  AllReadOnlyStay
  BY <1>6, ApplyStickyReadOnly
<1>7. ASSUME NEW f \in Files, ToggleSticky(f) \/ DeleteFile(f) \/ CopyFile(f) \/ FindCopy(f)
      PROVE  AllReadOnlyStay
  <2>1. CASE DeleteFile(f)
    BY <2>1, DeleteFileReadOnly
  <2>2. CASE ToggleSticky(f) \/ CopyFile(f) \/ FindCopy(f)
    BY <2>2, SameAttributesReadOnly DEF ToggleSticky, CopyFile, FindCopy, attributes
  <2> QED
    BY <1>7, <2>1, <2>2
<1>8. CASE UNCHANGED vars
  BY <1>8, SameAttributesReadOnly DEF vars, attributes
<1>9. ASSUME NEW s \in Files, NEW t \in Files, NEW T \in Types,
             \E rid \in RequestIds(s, T, t), p \in Updates, to \in Files \cup {NoFile}, mode \in OneModes :
               \E U \in Types \cup (IF to = NoFile THEN {NoType} ELSE {}) :
                 UpdateRelation(s, T, t, rid, p, to, U, mode)
      PROVE  AllReadOnlyStay
  BY <1>4, <1>9, Zenon
<1> QED
  BY <1>1, <1>2, <1>3, <1>5, <1>6, <1>7, <1>8, <1>9, Zenon DEF Next

\* No request without the override changes a read-only relation, from
\* whichever side it is addressed: where every relation has its opposite, with
\* the same label, and no file is copied.
THEOREM ReadOnlyIsAlwaysKept ==
  ASSUME SameLabelsNoCopies, EveryInverse, PlainRemovals
  PROVE  Spec => ReadOnlyKept
<1>1. InStepInv /\ [Next]_vars => InStepInv'
  BY SameLabelsNoCopies, NextInStepInv
<1>2. InStepInv /\ [Next]_vars =>
        [\A f \in files', g \in Files, T \in Types : \A i \in DOMAIN rel[f][T][g] :
           rel[f][T][g][i].readonly => SameAs(rel[f][T][g]', rel[f][T][g][i]) # {}]_vars
  BY SameLabelsNoCopies, EveryInverse, PlainRemovals, NextReadOnly DEF AllReadOnlyStay, ReadOnlyStays
<1> QED
  BY <1>1, <1>2, InitInStepInv, PTL DEF Spec, ReadOnlyKept

-----------------------------------------------------------------------------
(* The first creator of a relation, where no update states another one.     *)

CreatorStays(old, new) ==
  \A i \in DOMAIN old :
    old[i].provenance # NoCreator /\ SameAs(new, old[i]) # {} =>
      \E j \in SameAs(new, old[i]) : new[j].provenance = old[i].provenance

AllDistinct(st) == \A f, g \in Files, T \in Types : Distinct(st.rel[f][T][g])

\* The inductive invariant: no target has the same relation twice.
CreatorsInv == RelationsInv /\ AllDistinct(Store)

\* What a step makes of the sets of one target.
Follows(old, new) == Distinct(new) /\ CreatorStays(old, new)

LEMMA GrowsFollows ==
  ASSUME NEW old, NEW new, WellKept(old), WellKept(new), Grows(old, new), Distinct(new)
  PROVE  Follows(old, new)
<1>1. /\ DOMAIN old = 1 .. Len(old) /\ DOMAIN new = 1 .. Len(new)
      /\ Len(old) \in Nat /\ Len(new) \in Nat
  BY LenProperties DEF WellKept
<1>2. \A i \in DOMAIN old : i \in DOMAIN new
  BY <1>1 DEF Grows
<1> QED
  BY <1>1, <1>2 DEF Grows, CreatorStays, Follows, SameAs

LEMMA SameFollows ==
  ASSUME NEW sets, WellKept(sets), Distinct(sets)
  PROVE  Follows(sets, sets)
BY GrowsItself, GrowsFollows

LEMMA NoneFollows ==
  ASSUME NEW old
  PROVE  Follows(old, <<>>)
BY DEF Follows, Distinct, CreatorStays, SameAs

\* The set that is taken was the only one of its relation.
LEMMA RemovedFollows ==
  ASSUME NEW old, NEW k \in DOMAIN old, WellKept(old), Distinct(old)
  PROVE  Follows(old, RemoveSet(old, k))
<1> DEFINE new == RemoveSet(old, k)
<1>1. DOMAIN old = 1 .. Len(old) /\ Len(old) \in Nat
  BY LenProperties DEF WellKept
<1>2. WellKept(new) /\ Leaves(old, k, new)
  BY RemoveSetWellKept, RemoveSetLeaves
<1>3. DOMAIN new = 1 .. Len(new) /\ Len(new) \in Nat
  BY <1>2, LenProperties DEF WellKept
<1> HIDE DEF new
<1>4. Distinct(new) /\ \A j \in 1 .. Len(new) : Identity(new[j]) # Identity(old[k])
  BY <1>1, <1>2, LeavesDistinct
<1>5. ASSUME NEW i \in DOMAIN old, SameAs(new, old[i]) # {}
      PROVE  \E j \in SameAs(new, old[i]) : new[j].provenance = old[i].provenance
  <2>1. i # k
    BY <1>3, <1>4, <1>5 DEF SameAs
  <2>2. \E j \in 1 .. Len(new) : Identity(new[j]) = Identity(old[i]) /\ new[j].provenance = old[i].provenance
    BY <1>1, <1>2, <2>1, LeftAt
  <2> QED
    BY <1>3, <2>2 DEF SameAs
<1> QED
  BY <1>4, <1>5 DEF Follows, CreatorStays, new

AllFollow == \A f, g \in Files, T \in Types : Follows(rel[f][T][g], rel'[f][T][g])

LEMMA KeptSets ==
  ASSUME CreatorsInv
  PROVE  /\ StoreOK(Store)
         /\ \A f, g \in Files, T \in Types :
              WellKept(rel[f][T][g]) /\ Distinct(rel[f][T][g]) /\ Store.rel[f][T][g] = rel[f][T][g]
BY DEF CreatorsInv, AllDistinct, RelationsInv, StoreOK, Store

LEMMA CommitFollows ==
  ASSUME NEW st, Commit(st),
         \A f, g \in Files, T \in Types : Follows(rel[f][T][g], st.rel[f][T][g])
  PROVE  AllFollow
BY DEF Commit, AllFollow

LEMMA SameAttributesFollow ==
  ASSUME CreatorsInv, UNCHANGED attributes
  PROVE  AllFollow
BY KeptSets, SameFollows DEF AllFollow, attributes

LEMMA AddTxFollows ==
  ASSUME CreatorsInv, NEW edges \in SUBSET (Files \X Files), NEW T \in Types,
         NEW p \in PropertySet, NEW q \in PropertySet,
         StoreOK(AddTx(Store, edges, T, p, q)), NEW f \in Files, NEW g \in Files, NEW U \in Types
  PROVE  Follows(rel[f][U][g], AddTx(Store, edges, T, p, q).rel[f][U][g])
<1> DEFINE new == AddTx(Store, edges, T, p, q)
<1>1. /\ Grows(Store.rel[f][U][g], new.rel[f][U][g])
      /\ Distinct(Store.rel[f][U][g]) => Distinct(new.rel[f][U][g])
  BY KeptSets, AddTxGrows
<1>2. WellKept(new.rel[f][U][g])
  BY DEF StoreOK
<1> HIDE DEF new
<1>3. Follows(rel[f][U][g], new.rel[f][U][g])
  BY <1>1, <1>2, KeptSets, GrowsFollows
<1> QED
  BY <1>3 DEF new

LEMMA AddRelationFollows ==
  ASSUME CreatorsInv, NEW source \in Files, NEW target \in Files, NEW T \in Types,
         NEW p \in Inputs, NEW sender \in Senders, NEW own \in OwnLabels,
         AddRelation(source, target, T, p, sender, own)
  PROVE  AllFollow
<1> DEFINE s     == IF Swaps(T, source, target) THEN target ELSE source
           t     == IF Swaps(T, source, target) THEN source ELSE target
           added == AddedProperties(T, p, sender)
           q     == AddedInverse(T, added, own)
           new   == AddTx(Store, {<<s, t>>}, T, added, q)
<1>1. (FitsBounds(new) /\ Commit(new)) \/ UNCHANGED attributes
  BY DEF AddRelation, Fail
<1>2. added \in PropertySet /\ q \in PropertySet
  BY AddedPropertiesType DEF CreatorsInv
<1>3. {<<s, t>>} \in SUBSET (Files \X Files)
  OBVIOUS
<1> HIDE DEF s, t, added, q
<1>4. FitsBounds(new) => StoreOK(new)
  BY <1>2, <1>3, KeptSets, AddTxOK
<1>5. ASSUME FitsBounds(new), NEW f \in Files, NEW g \in Files, NEW U \in Types
      PROVE  Follows(rel[f][U][g], new.rel[f][U][g])
  BY <1>2, <1>3, <1>4, <1>5, AddTxFollows
<1> HIDE DEF new
<1> QED
  BY <1>1, <1>5, CommitFollows, SameAttributesFollow

LEMMA ApplyStickyFollows ==
  ASSUME CreatorsInv, NEW files_ \in SUBSET Files, ApplySticky(files_)
  PROVE  AllFollow
<1> DEFINE edges == files_ \X StickyClassifications
           q     == InverseProperties(Association, Plain)
           new   == AddTx(Store, edges, Association, Plain, q)
<1>1. Association \in Types /\ ((FitsBounds(new) /\ Commit(new)) \/ UNCHANGED attributes)
  BY DEF ApplySticky
<1>2. Plain \in PropertySet
  BY DEF Plain, PropertySet, Labels
<1>3. q \in PropertySet
  BY <1>1, <1>2, InversePropertiesType
<1>4. edges \in SUBSET (Files \X Files)
  BY DEF StickyClassifications, CreatorsInv, RelationsInv, FilesOK
<1> HIDE DEF edges, q
<1>5. FitsBounds(new) => StoreOK(new)
  BY <1>1, <1>2, <1>3, <1>4, KeptSets, AddTxOK
<1>6. ASSUME FitsBounds(new), NEW f \in Files, NEW g \in Files, NEW U \in Types
      PROVE  Follows(rel[f][U][g], new.rel[f][U][g])
  BY <1>1, <1>2, <1>3, <1>4, <1>5, <1>6, AddTxFollows
<1> HIDE DEF new
<1> QED
  BY <1>1, <1>6, CommitFollows, SameAttributesFollow

LEMMA RemoveRelationFollows ==
  ASSUME CreatorsInv, NEW s \in Files, NEW T \in Types, NEW t \in Files, NEW rid, NEW mode,
         RemoveRelation(s, T, t, rid, mode)
  PROVE  AllFollow
<1>1. PICK i \in Addressed(rel[s][T][t], rid, mode = "override") : Commit(RemoveOne(Store, s, T, t, i))
  BY DEF RemoveRelation
<1> DEFINE new == RemoveOne(Store, s, T, t, i)
<1>2. i \in DOMAIN Store.rel[s][T][t]
  BY AddressedIsThere DEF Store
<1>3. ASSUME NEW f \in Files, NEW g \in Files, NEW U \in Types
      PROVE  Follows(rel[f][U][g], new.rel[f][U][g])
  <2>1. \/ new.rel[f][U][g] = Store.rel[f][U][g]
        \/ \E k \in DOMAIN Store.rel[f][U][g] : new.rel[f][U][g] = RemoveSet(Store.rel[f][U][g], k)
    BY <1>2, KeptSets, RemoveOneTakes
  <2> HIDE DEF new
  <2> QED
    BY <2>1, KeptSets, SameFollows, RemovedFollows
<1> HIDE DEF new
<1> QED
  BY <1>1, <1>3, CommitFollows DEF new

LEMMA RemoveWholeFollows ==
  ASSUME CreatorsInv, NEW s, NEW gone, Commit(RemoveWhole(Store, s, gone))
  PROVE  AllFollow
<1> DEFINE new == RemoveWhole(Store, s, gone)
<1>1. \A f, g \in Files, T \in Types : new.rel[f][T][g] = <<>> \/ new.rel[f][T][g] = rel[f][T][g]
  BY DEF RemoveWhole, Store
<1> HIDE DEF new
<1>2. \A f, g \in Files, T \in Types : Follows(rel[f][T][g], new.rel[f][T][g])
  BY <1>1, KeptSets, NoneFollows, SameFollows
<1> QED
  BY <1>2, CommitFollows DEF new

\* A relation moves: nothing else of it or of its opposite changes before it
\* is taken away from its old place.
LEMMA UpdateRelationFollows ==
  ASSUME CreatorsInv, NEW s \in Files, NEW T \in Types, NEW t \in Files, NEW rid,
         NEW properties \in Updates, Updates \subseteq {NoProperties},
         NEW newTarget \in Files \cup {NoFile}, NEW newType \in Types \cup {NoType}, NEW mode,
         UpdateRelation(s, T, t, rid, properties, newTarget, newType, mode)
  PROVE  AllFollow
<1> DEFINE to == IF newTarget = NoFile THEN t ELSE newTarget
           U  == IF newType = NoType THEN T ELSE newType
           set(i)   == WithoutId(Store.rel[s][T][t][i])
           Added(i) == AddTx(Store, {<<s, to>>}, U, set(i), InverseProperties(U, set(i)))
<1>1. to \in Files /\ U \in Types
  OBVIOUS
<1>2. PICK i \in Addressed(rel[s][T][t], rid, mode = "override") :
        \/ Commit(Store)
        \/ /\ to # t \/ U # T
           /\ FitsBounds(Added(i))
           /\ Commit(RemoveOne(Added(i), s, T, t, i))
        \/ Fail({}, s, to)
  BY DEF UpdateRelation
<1> HIDE DEF to, U
<1>3. i \in DOMAIN Store.rel[s][T][t]
  BY AddressedIsThere DEF Store
<1>4. CASE Commit(Store) \/ Fail({}, s, to)
  BY <1>4, SameAttributesFollow DEF Commit, Store, Fail, attributes
<1>5. ASSUME to # t \/ U # T, FitsBounds(Added(i)), Commit(RemoveOne(Added(i), s, T, t, i))
      PROVE  AllFollow
  <2>1. set(i) \in PropertySet
    <3>1. WellKept(Store.rel[s][T][t])
      BY KeptSets
    <3>2. Store.rel[s][T][t][i] \in PropertySet
      BY <1>3, <3>1, ElementOfSeq, LenProperties DEF WellKept
    <3> QED
      BY <3>2, WithoutIdType
  <2>2. InverseProperties(U, set(i)) \in PropertySet /\ {<<s, to>>} \in SUBSET (Files \X Files)
    BY <1>1, <2>1, InversePropertiesType
  <2> HIDE DEF set
  <2>3. StoreOK(Added(i))
    BY <1>1, <1>5, <2>1, <2>2, KeptSets, AddTxOK
  <2>4. ASSUME NEW f \in Files, NEW g \in Files, NEW V \in Types, IsPair(f, V, g, s, T, t)
        PROVE  Added(i).rel[f][V][g] = Store.rel[f][V][g]
    <3>1. V # U \/ ~Touches({<<s, to>>}, f, g)
      BY <1>5, <2>4 DEF IsPair, Touches
    <3>2. StoreOK(Store)
      BY KeptSets
    <3> QED
      BY <1>1, <3>1, <3>2, AddTxRest
  <2>5. \A f, g \in Files, V \in Types : Follows(rel[f][V][g], Added(i).rel[f][V][g])
    BY <1>1, <2>1, <2>2, <2>3, AddTxFollows
  <2> DEFINE added == Added(i)
             new == RemoveOne(added, s, T, t, i)
  <2> HIDE DEF Added
  <2>6. i \in DOMAIN added.rel[s][T][t]
    BY <1>3, <2>4 DEF IsPair
  <2>7. ASSUME NEW f \in Files, NEW g \in Files, NEW V \in Types
        PROVE  Follows(rel[f][V][g], new.rel[f][V][g])
    <3>1. \/ new.rel[f][V][g] = added.rel[f][V][g]
          \/ /\ IsPair(f, V, g, s, T, t)
             /\ \E k \in DOMAIN added.rel[f][V][g] : new.rel[f][V][g] = RemoveSet(added.rel[f][V][g], k)
      BY <2>3, <2>6, RemoveOneTakes DEF IsPair
    <3> HIDE DEF new
    <3>2. CASE new.rel[f][V][g] = added.rel[f][V][g]
      BY <2>5, <3>2
    <3>3. CASE IsPair(f, V, g, s, T, t) /\
               \E k \in DOMAIN added.rel[f][V][g] : new.rel[f][V][g] = RemoveSet(added.rel[f][V][g], k)
      <4>1. added.rel[f][V][g] = rel[f][V][g]
        BY <2>4, <3>3, KeptSets
      <4> QED
        BY <3>3, <4>1, KeptSets, RemovedFollows
    <3> QED
      BY <3>1, <3>2, <3>3
  <2> HIDE DEF new
  <2> QED
    BY <1>5, <2>7, CommitFollows DEF new
<1> QED
  BY <1>2, <1>4, <1>5

LEMMA DeleteFileFollows ==
  ASSUME CreatorsInv, NEW d \in Files, DeleteFile(d)
  PROVE  AllFollow
<1>1. rel \in [Files -> [Types -> [Files -> Seq(PropertySet)]]]
  BY KeptSets DEF StoreOK, Store
<1>2. \A f, g \in Files, T \in Types : rel'[f][T][g] = <<>> \/ rel'[f][T][g] = rel[f][T][g]
  BY <1>1 DEF DeleteFile
<1>3. ASSUME NEW f \in Files, NEW g \in Files, NEW T \in Types
      PROVE  Follows(rel[f][T][g], rel'[f][T][g])
  BY <1>2, KeptSets, NoneFollows, SameFollows
<1> QED
  BY <1>3 DEF AllFollow

NoNewProperties == Updates \subseteq {NoProperties}

LEMMA NextFollows ==
  ASSUME NoNewProperties, CreatorsInv, [Next]_vars
  PROVE  AllFollow
<1>0. Updates \subseteq {NoProperties}
  BY DEF NoNewProperties
<1>1. ASSUME NEW s \in Files, NEW t \in Files, NEW T \in Types,
             \E p \in Inputs, sender \in Senders, own \in OwnLabels : AddRelation(s, t, T, p, sender, own)
      PROVE  AllFollow
  BY <1>1, AddRelationFollows
<1>2. ASSUME NEW s \in Files, NEW t \in Files, NEW T \in Types,
             \E rid \in RequestIds(s, T, t), mode \in OneModes : RemoveRelation(s, T, t, rid, mode)
      PROVE  AllFollow
  BY <1>2, RemoveRelationFollows
<1>3. ASSUME NEW s \in Files, NEW t \in Files, NEW T \in Types,
             \E mode \in OneModes : RemoveRelationAllSets(s, T, t, mode)
      PROVE  AllFollow
  BY <1>3, RemoveWholeFollows DEF RemoveRelationAllSets
<1>4. ASSUME NEW s \in Files, NEW t \in Files, NEW T \in Types,
             NEW rid \in RequestIds(s, T, t), NEW p \in Updates, NEW to \in Files \cup {NoFile},
             NEW mode \in OneModes, NEW U \in Types \cup (IF to = NoFile THEN {NoType} ELSE {}),
             UpdateRelation(s, T, t, rid, p, to, U, mode)
      PROVE  AllFollow
  <2>1. U \in Types \cup {NoType}
    OBVIOUS
  <2> QED
    BY <1>0, <1>4, <2>1, UpdateRelationFollows
<1>5. ASSUME NEW s \in Files, NEW types \in {Types} \cup {{T} : T \in Types}, NEW mode \in RemoveModes,
             RemoveAllRelations(s, types, mode)
      PROVE  AllFollow
  BY <1>5, RemoveWholeFollows DEF RemoveAllRelations
<1>6. ASSUME NEW new \in SUBSET Files, ApplySticky(new)
      PROVE  AllFollow
  BY <1>6, ApplyStickyFollows
<1>7. ASSUME NEW f \in Files, ToggleSticky(f) \/ DeleteFile(f) \/ CopyFile(f) \/ FindCopy(f)
      PROVE  AllFollow
  <2>1. CASE DeleteFile(f)
    BY <2>1, DeleteFileFollows
  <2>2. CASE ToggleSticky(f) \/ CopyFile(f) \/ FindCopy(f)
    BY <2>2, SameAttributesFollow DEF ToggleSticky, CopyFile, FindCopy, attributes
  <2> QED
    BY <1>7, <2>1, <2>2
<1>8. CASE UNCHANGED vars
  BY <1>8, SameAttributesFollow DEF vars, attributes
<1>9. ASSUME NEW s \in Files, NEW t \in Files, NEW T \in Types,
             \E rid \in RequestIds(s, T, t), p \in Updates, to \in Files \cup {NoFile}, mode \in OneModes :
               \E U \in Types \cup (IF to = NoFile THEN {NoType} ELSE {}) :
                 UpdateRelation(s, T, t, rid, p, to, U, mode)
      PROVE  AllFollow
  BY <1>4, <1>9, Zenon
<1> QED
  BY <1>1, <1>2, <1>3, <1>5, <1>6, <1>7, <1>8, <1>9, Zenon DEF Next

LEMMA InitCreatorsInv == Init => CreatorsInv
<1> SUFFICES ASSUME Init PROVE CreatorsInv
  OBVIOUS
<1>1. \A f, g \in Files, T \in Types : Store.rel[f][T][g] = <<>>
  BY DEF Init, Store
<1>2. Distinct(<<>>)
  BY DEF Distinct
<1> QED
  BY <1>1, <1>2, InitRelationsInv DEF CreatorsInv, AllDistinct

LEMMA NextCreatorsInv ==
  ASSUME NoNewProperties
  PROVE  CreatorsInv /\ [Next]_vars => CreatorsInv'
<1> SUFFICES ASSUME CreatorsInv, [Next]_vars PROVE CreatorsInv'
  OBVIOUS
<1>1. RelationsInv'
  BY NextRelationsInv DEF CreatorsInv
<1>2. AllFollow
  BY NextFollows
<1>3. \A f, g \in Files, T \in Types : Distinct(rel'[f][T][g])
  BY <1>2 DEF AllFollow, Follows
<1> QED
  BY <1>1, <1>3 DEF CreatorsInv, AllDistinct, Store

\* Whoever makes a relation again, from whichever side, and wherever it moves
\* to and back: its first creator stays.
THEOREM FirstCreatorAlwaysStays ==
  ASSUME NoNewProperties
  PROVE  Spec => FirstCreatorStays
<1>1. CreatorsInv /\ [Next]_vars => CreatorsInv'
  BY NoNewProperties, NextCreatorsInv
<1>2. CreatorsInv /\ [Next]_vars =>
        [\A f, g \in Files, T \in Types : \A i \in DOMAIN rel[f][T][g] :
           LET set == rel[f][T][g][i] IN
           set.provenance # NoCreator /\ SameAs(rel[f][T][g]', set) # {} =>
             \E j \in SameAs(rel[f][T][g]', set) : rel[f][T][g][j]'.provenance = set.provenance]_vars
  BY NoNewProperties, NextFollows DEF AllFollow, Follows, CreatorStays
<1> QED
  BY <1>1, <1>2, InitCreatorsInv, PTL DEF Spec, FirstCreatorStays
=============================================================================
