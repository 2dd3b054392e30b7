------------------------- MODULE Migrations_proofs --------------------------
(***************************************************************************)
(* Proofs about Migrations: for any number of objects and relations,       *)
(* requests, failures and starts, and with two migrators at a time, no     *)
(* relation is lost, and a step that is recorded is complete.              *)
(***************************************************************************)
EXTENDS Migrations, TLAPS

-----------------------------------------------------------------------------
(* The inductive invariant *)

Old(o) == Stored(o, "from")
New(o) == Stored(o, "to")

\* Relations that count as kept whatever happens: their target had relations of both types.
Either(o, r) == r.target \in doubled[o]

Fields == {"at", "todo", "object", "moving", "moved", "additions", "failed"}

AtRename == {"rename", "to", "write", "remove"}

RelationsTyped ==
  /\ relations \in [Objects -> [Types -> (SUBSET Relation) \cup {Nothing}]]
  /\ DOMAIN known = Objects /\ DOMAIN doubled = Objects

MigratorTyped(m) ==
  /\ DOMAIN run[m] = Fields
  /\ run[m].moving \subseteq Relation /\ run[m].moved \subseteq Relation
  /\ run[m].at \in AtRename => run[m].todo \subseteq Objects
  /\ run[m].at \in {"to", "write", "remove"} => run[m].object \in Objects

RunTyped == DOMAIN run = Migrators /\ \A m \in Migrators : MigratorTyped(m)

RequestTyped ==
  request # NoRequest =>
    request \in [object : Objects, type : Types, read : SUBSET Relation, relation : Relation,
                 add : BOOLEAN]

\* Of an object that nobody wrote behind another one's back: each relation is kept, one of the old
\* type also under the new one if that has its target,
StoredOK(o) ==
  /\ \A r \in known[o] : r \in Old(o) \cup New(o) \/ Either(o, r)
  /\ \A r \in Old(o) : r.target \in TargetsOf(New(o)) => r \in New(o) \/ Either(o, r)

\* what the looper has read is what is stored,
RequestOK(o) == request.object = o => request.read = Stored(o, request.type)

\* and a migrator has read the relations of the old type, or they were moved meanwhile; will write
\* all; or has written them.
Covers(o, message) == \A r \in known[o] : r \in message \/ Either(o, r)

InHandOK(m, o) ==
  run[m].object = o =>
    /\ run[m].at = "to" => run[m].moving = Old(o) \/ (Old(o) = {} /\ Covers(o, New(o)))
    /\ run[m].at = "write" =>
         /\ Covers(o, run[m].moved)
         /\ \A r \in Old(o) : r.target \in TargetsOf(run[m].moved) => r \in run[m].moved \/ Either(o, r)
    /\ run[m].at = "remove" => Covers(o, New(o))

ObjectOK(o) == StoredOK(o) /\ RequestOK(o) /\ \A m \in Migrators : InHandOK(m, o)

MigrationsInv ==
  /\ RelationsTyped /\ RunTyped /\ RequestTyped
  /\ \A o \in Objects \ stale : ObjectOK(o)

-----------------------------------------------------------------------------
(* Steps of one migrator *)

InHand == {"to", "write", "remove"}

OthersRun(m) == DOMAIN run' = Migrators /\ \A n \in Migrators : n # m => run'[n] = run[n]

LEMMA TypedStep ==
  ASSUME RunTyped, NEW m \in Migrators, OthersRun(m), MigratorTyped(m)'
  PROVE  RunTyped'
  BY DEF RunTyped, MigratorTyped, OthersRun

\* It rests, or is at a step with files to come.
LEMMA RestingTyped ==
  ASSUME NEW m \in Migrators, RunTyped, NEW rec, DOMAIN rec = Fields,
         rec.moving = {}, rec.moved = {}, rec.at \notin InHand,
         rec.at = "rename" => rec.todo \subseteq Objects,
         run' = [run EXCEPT ![m] = rec]
  PROVE  RunTyped' /\ OthersRun(m) /\ run'[m] = rec /\ run'[m].at \notin InHand
<1>1. OthersRun(m) /\ run'[m] = rec
  BY DEF RunTyped, OthersRun
<1>2. MigratorTyped(m)'
  BY <1>1 DEF MigratorTyped, InHand, AtRename
<1> QED
  BY <1>1, <1>2, TypedStep

\* Whether an object is kept does not change while the stored relations do not and nobody reads
\* them.
LEMMA NothingStored ==
  ASSUME MigrationsInv, relations' = relations, known' = known, doubled' = doubled,
         stale \subseteq stale', request' = request \/ request' = NoRequest, RunTyped',
         \A m \in Migrators : run'[m] = run[m] \/ run'[m].at \notin InHand
  PROVE  MigrationsInv'
<1>1. RelationsTyped' /\ RequestTyped'
  BY DEF MigrationsInv, RelationsTyped, RequestTyped
<1>2. ASSUME NEW o \in Objects, o \notin stale' PROVE ObjectOK(o)'
  <2>1. ObjectOK(o)
    BY <1>2 DEF MigrationsInv
  <2>2. Old(o)' = Old(o) /\ New(o)' = New(o) /\ (\A r : Either(o, r)' <=> Either(o, r))
        /\ known'[o] = known[o]
    BY DEF Old, New, Stored, Either
  <2>3. StoredOK(o)'
    BY <2>1, <2>2 DEF ObjectOK, StoredOK
  <2>4. RequestOK(o)'
    <3>1. CASE request' = request
      BY <2>1, <3>1 DEF ObjectOK, RequestOK, Stored
    <3>2. CASE request' = NoRequest
      BY <3>2, MigrationsAssumption DEF RequestOK, NoRequest
    <3> QED
      BY <3>1, <3>2
  <2>5. ASSUME NEW m \in Migrators PROVE InHandOK(m, o)'
    <3>1. CASE run'[m] = run[m]
      BY <2>1, <2>2, <3>1 DEF ObjectOK, InHandOK, Covers
    <3>2. CASE run'[m].at \notin InHand
      BY <3>2 DEF InHandOK, InHand
    <3> QED
      BY <3>1, <3>2
  <2> QED
    BY <2>3, <2>4, <2>5 DEF ObjectOK
<1> QED
  BY <1>1, <1>2 DEF MigrationsInv

-----------------------------------------------------------------------------
(* RenameRelationTypes *)

LEMMA BeginRenameKeeps ==
  ASSUME MigrationsInv, NEW m \in Migrators, BeginRename(m) PROVE MigrationsInv'
<1>1. UNCHANGED <<relations, known, doubled, stale, request>>
  BY DEF BeginRename, files
<1>2. PICK rec : /\ run' = [run EXCEPT ![m] = rec]
                 /\ rec \in {Resting, [Resting EXCEPT !.at = "rename", !.todo = Objects],
                             [Resting EXCEPT !.at = "rename", !.failed = TRUE]}
  BY DEF BeginRename
<1>3. /\ DOMAIN rec = Fields /\ rec.moving = {} /\ rec.moved = {} /\ rec.at \notin InHand
      /\ rec.at = "rename" => rec.todo \subseteq Objects
  <2>1. CASE rec = Resting
    BY <2>1 DEF Resting, Fields, InHand
  <2>2. CASE rec = [Resting EXCEPT !.at = "rename", !.todo = Objects]
    BY <2>2 DEF Resting, Fields, InHand
  <2>3. CASE rec = [Resting EXCEPT !.at = "rename", !.failed = TRUE]
    BY <2>3 DEF Resting, Fields, InHand
  <2> QED
    BY <1>2, <2>1, <2>2, <2>3
<1>4. RunTyped' /\ OthersRun(m) /\ run'[m].at \notin InHand
  BY <1>2, <1>3, RestingTyped DEF MigrationsInv
<1> QED
  BY <1>1, <1>4, NothingStored DEF OthersRun

LEMMA StoredTyped ==
  ASSUME RelationsTyped, NEW o \in Objects
  PROVE  Old(o) \subseteq Relation /\ New(o) \subseteq Relation
<1>1. ASSUME NEW type \in Types PROVE Stored(o, type) \subseteq Relation
  <2>1. relations[o][type] \in (SUBSET Relation) \cup {Nothing}
    BY DEF RelationsTyped
  <2>2. CASE relations[o][type] = Nothing
    BY <2>2 DEF Stored
  <2>3. CASE relations[o][type] # Nothing
    <3>1. Stored(o, type) = relations[o][type]
      BY <2>3, Zenon DEF Stored
    <3>2. relations[o][type] \in SUBSET Relation
      BY <2>1, <2>3, Zenon
    <3> QED
      BY <3>1, <3>2
  <2> QED
    BY <2>2, <2>3
<1> QED
  BY <1>1 DEF Old, New, Types

\* The object in hand has what was read under the old type.
LEMMA ReadFromKeeps ==
  ASSUME MigrationsInv, NEW m \in Migrators, ReadFrom(m) PROVE MigrationsInv'
<1>1. run[m].at = "rename" /\ UNCHANGED <<relations, known, doubled, stale, request>>
  BY DEF ReadFrom, files
<1>2. PICK o \in run[m].todo :
        \/ /\ relations[o]["from"] # Nothing
           /\ run' = [run EXCEPT ![m].object = o, ![m].moving = relations[o]["from"], ![m].at = "to"]
        \/ run' = [run EXCEPT ![m].todo = run[m].todo \ {o}]
  BY DEF ReadFrom
<1>3. MigratorTyped(m) /\ DOMAIN run = Migrators /\ o \in Objects
  BY <1>1, <1>2 DEF MigrationsInv, RunTyped, MigratorTyped, AtRename
<1>4. OthersRun(m)
  BY <1>2, <1>3 DEF OthersRun
<1>5. CASE run' = [run EXCEPT ![m].todo = run[m].todo \ {o}]
  <2>1. run'[m] = [run[m] EXCEPT !.todo = run[m].todo \ {o}]
    BY <1>3, <1>5
  <2>2. MigratorTyped(m)' /\ run'[m].at = "rename"
    BY <1>1, <1>3, <2>1 DEF MigratorTyped, Fields, AtRename
  <2>3. RunTyped'
    BY <1>4, <2>2, TypedStep DEF MigrationsInv
  <2>4. run'[m].at \notin InHand
    BY <2>2 DEF InHand
  <2> QED
    BY <1>1, <1>4, <2>3, <2>4, NothingStored DEF OthersRun
<1>6. CASE /\ relations[o]["from"] # Nothing
           /\ run' = [run EXCEPT ![m].object = o, ![m].moving = relations[o]["from"], ![m].at = "to"]
  <2>1. run'[m] = [run[m] EXCEPT !.object = o, !.moving = relations[o]["from"], !.at = "to"]
    BY <1>3, <1>6
  <2>2. /\ DOMAIN run'[m] = Fields /\ run'[m].object = o /\ run'[m].at = "to"
        /\ run'[m].moving = relations[o]["from"] /\ run'[m].moved = run[m].moved
        /\ run'[m].todo = run[m].todo
    BY <1>3, <2>1 DEF MigratorTyped, Fields, AtRename
  <2>3. relations[o]["from"] = Old(o) /\ Old(o) \subseteq Relation
    BY <1>3, <1>6, StoredTyped DEF Old, Stored, MigrationsInv
  <2>4. MigratorTyped(m)'
    BY <1>1, <1>3, <2>2, <2>3 DEF MigratorTyped, AtRename
  <2>5. RunTyped'
    BY <1>4, <2>4, TypedStep DEF MigrationsInv
  <2>6. RelationsTyped' /\ RequestTyped'
    BY <1>1 DEF MigrationsInv, RelationsTyped, RequestTyped
  <2>7. ASSUME NEW u \in Objects, u \notin stale' PROVE ObjectOK(u)'
    <3>1. ObjectOK(u)
      BY <1>1, <2>7 DEF MigrationsInv
    <3>2. Old(u)' = Old(u) /\ New(u)' = New(u) /\ (\A r : Either(u, r)' <=> Either(u, r))
          /\ known'[u] = known[u]
      BY <1>1 DEF Old, New, Stored, Either
    <3>3. StoredOK(u)' /\ RequestOK(u)'
      BY <1>1, <3>1, <3>2 DEF ObjectOK, StoredOK, RequestOK, Stored
    <3>4. ASSUME NEW n \in Migrators PROVE InHandOK(n, u)'
      <4>1. CASE n = m
        BY <2>2, <2>3, <3>2, <4>1 DEF InHandOK
      <4>2. CASE n # m
        BY <1>4, <3>1, <3>2, <4>2 DEF ObjectOK, InHandOK, Covers, OthersRun
      <4> QED
        BY <4>1, <4>2
    <3> QED
      BY <3>3, <3>4 DEF ObjectOK
  <2> QED
    BY <2>5, <2>6, <2>7 DEF MigrationsInv
<1> QED
  BY <1>2, <1>5, <1>6

\* What is merged has all of the object, and nothing else of a target that was there.
LEMMA MergeCovers ==
  ASSUME NEW o, StoredOK(o), NEW moving,
         moving = Old(o) \/ (Old(o) = {} /\ Covers(o, New(o)))
  PROVE  /\ Covers(o, Merge(moving, New(o)))
         /\ \A r \in Old(o) : r.target \in TargetsOf(Merge(moving, New(o))) =>
              r \in Merge(moving, New(o)) \/ Either(o, r)
<1> DEFINE merged == Merge(moving, New(o))
<1>1. \A r : r \in merged <=> r \in New(o) \/ (r \in moving /\ r.target \notin TargetsOf(New(o)))
  BY DEF Merge
<1> HIDE DEF merged
<1>2. CASE moving = Old(o)
  <2>1. \A r \in Old(o) : r \in merged \/ Either(o, r)
    BY <1>1, <1>2 DEF StoredOK
  <2>2. Covers(o, merged)
    BY <1>1, <2>1 DEF StoredOK, Covers
  <2> QED
    BY <2>1, <2>2 DEF merged
<1>3. CASE Old(o) = {} /\ Covers(o, New(o))
  <2>1. Covers(o, merged)
    BY <1>1, <1>3 DEF Covers
  <2> QED
    BY <1>3, <2>1 DEF merged
<1> QED
  BY <1>2, <1>3

LEMMA ReadToKeeps ==
  ASSUME MigrationsInv, NEW m \in Migrators, ReadTo(m) PROVE MigrationsInv'
<1> DEFINE o == run[m].object
           merged == Merge(run[m].moving, New(o))
<1>1. /\ run[m].at = "to" /\ UNCHANGED <<relations, known, doubled, stale, request>>
      /\ run' = [run EXCEPT ![m].moved = merged, ![m].at = "write"]
  BY DEF ReadTo, files, history, New
<1>2. MigratorTyped(m) /\ DOMAIN run = Migrators /\ o \in Objects
  BY <1>1 DEF MigrationsInv, RunTyped, MigratorTyped, AtRename
<1>3. OthersRun(m) /\ run'[m] = [run[m] EXCEPT !.moved = merged, !.at = "write"]
  BY <1>1, <1>2 DEF OthersRun
<1>4. New(o) \subseteq Relation /\ merged \subseteq Relation
  <2>1. New(o) \subseteq Relation
    BY <1>2, StoredTyped DEF MigrationsInv
  <2> QED
    BY <1>2, <2>1 DEF Merge, MigratorTyped
<1> HIDE DEF merged
<1>5. /\ DOMAIN run'[m] = Fields /\ run'[m].object = o /\ run'[m].at = "write"
      /\ run'[m].moving = run[m].moving /\ run'[m].moved = merged /\ run'[m].todo = run[m].todo
  BY <1>2, <1>3 DEF MigratorTyped, Fields, AtRename
<1>6. MigratorTyped(m)'
  BY <1>1, <1>2, <1>4, <1>5 DEF MigratorTyped, AtRename
<1>7. RunTyped'
  BY <1>3, <1>6, TypedStep DEF MigrationsInv
<1>8. RelationsTyped' /\ RequestTyped'
  BY <1>1 DEF MigrationsInv, RelationsTyped, RequestTyped
<1>9. ASSUME NEW u \in Objects, u \notin stale' PROVE ObjectOK(u)'
  <2>1. ObjectOK(u)
    BY <1>1, <1>9 DEF MigrationsInv
  <2>2. Old(u)' = Old(u) /\ New(u)' = New(u) /\ (\A r : Either(u, r)' <=> Either(u, r))
        /\ known'[u] = known[u]
    BY <1>1 DEF Old, New, Stored, Either
  <2>3. StoredOK(u)' /\ RequestOK(u)'
    BY <1>1, <2>1, <2>2 DEF ObjectOK, StoredOK, RequestOK, Stored
  <2>4. ASSUME NEW n \in Migrators PROVE InHandOK(n, u)'
    <3>1. CASE n = m
      <4> SUFFICES ASSUME u = o PROVE InHandOK(m, u)'
        BY <1>5, <3>1 DEF InHandOK
      <4>1. run[m].moving = Old(o) \/ (Old(o) = {} /\ Covers(o, New(o)))
        BY <1>1, <2>1 DEF ObjectOK, InHandOK
      <4>2. /\ Covers(o, merged)
            /\ \A r \in Old(o) : r.target \in TargetsOf(merged) => r \in merged \/ Either(o, r)
        BY <2>1, <4>1, MergeCovers DEF ObjectOK, merged
      <4> QED
        BY <1>5, <2>2, <4>2 DEF InHandOK, Covers
    <3>2. CASE n # m
      BY <1>3, <2>1, <2>2, <3>2 DEF ObjectOK, InHandOK, Covers, OthersRun
    <3> QED
      BY <3>1, <3>2
  <2> QED
    BY <2>3, <2>4 DEF ObjectOK
<1> QED
  BY <1>7, <1>8, <1>9 DEF MigrationsInv

\* One attribute of an object is written.
LEMMA WrittenOne ==
  ASSUME RelationsTyped, NEW o \in Objects, NEW type \in Types,
         NEW v \in (SUBSET Relation) \cup {Nothing}, relations' = [relations EXCEPT ![o][type] = v]
  PROVE  /\ relations' \in [Objects -> [Types -> (SUBSET Relation) \cup {Nothing}]]
         /\ \A u \in Objects, t \in Types : u # o \/ t # type => Stored(u, t)' = Stored(u, t)
         /\ Stored(o, type)' = IF v = Nothing THEN {} ELSE v
<1>1. relations' \in [Objects -> [Types -> (SUBSET Relation) \cup {Nothing}]]
  BY DEF RelationsTyped
<1>2. \A u \in Objects, t \in Types : u # o \/ t # type => relations'[u][t] = relations[u][t]
  BY DEF RelationsTyped
<1>3. relations'[o][type] = v
  BY DEF RelationsTyped
<1> QED
  BY <1>1, <1>2, <1>3 DEF Stored

LEMMA TwoTypes == "from" \in Types /\ "to" \in Types /\ "from" # "to"
  BY DEF Types

LEMMA NextObjectTyped ==
  ASSUME NEW m \in Migrators, RunTyped, run[m].at \in InHand, NEW failed, NextObject(m, failed),
         run[m].todo \subseteq Objects
  PROVE  RunTyped' /\ OthersRun(m) /\ run'[m].at \notin InHand
<1> DEFINE rec == [Resting EXCEPT !.at = "rename", !.todo = run[m].todo \ {run[m].object},
                                  !.failed = run[m].failed \/ failed]
<1>1. run' = [run EXCEPT ![m] = rec]
  BY DEF NextObject
<1>2. /\ DOMAIN rec = Fields /\ rec.moving = {} /\ rec.moved = {} /\ rec.at \notin InHand
      /\ rec.at = "rename" => rec.todo \subseteq Objects
  BY DEF Resting, Fields, InHand
<1> HIDE DEF rec
<1> QED
  BY <1>1, <1>2, RestingTyped

\* A migrator wrote an attribute of the object in hand.
LEMMA MigratorWrites ==
  ASSUME MigrationsInv, NEW m \in Migrators, NEW o \in Objects, NEW type \in Types,
         NEW v \in (SUBSET Relation) \cup {Nothing}, relations' = [relations EXCEPT ![o][type] = v],
         known' = known, doubled' = doubled, request' = request,
         stale' = stale \cup ({o} \cap {request.object}), RunTyped', OthersRun(m),
         run'[m].at \in InHand => run'[m].object = o,
         o \notin stale' => StoredOK(o)' /\ \A n \in Migrators : InHandOK(n, o)'
  PROVE  MigrationsInv'
<1>1. /\ relations' \in [Objects -> [Types -> (SUBSET Relation) \cup {Nothing}]]
      /\ \A u \in Objects, t \in Types : u # o \/ t # type => Stored(u, t)' = Stored(u, t)
  BY WrittenOne DEF MigrationsInv
<1>2. RelationsTyped' /\ RequestTyped'
  BY <1>1 DEF MigrationsInv, RelationsTyped, RequestTyped
<1>3. ASSUME NEW u \in Objects, u \notin stale', u # o PROVE ObjectOK(u)'
  <2>1. ObjectOK(u)
    BY <1>3 DEF MigrationsInv
  <2>2. \A t \in Types : Stored(u, t)' = Stored(u, t)
    BY <1>1, <1>3
  <2>3. Old(u)' = Old(u) /\ New(u)' = New(u) /\ (\A r : Either(u, r)' <=> Either(u, r))
    BY <2>2, TwoTypes DEF Old, New, Either
  <2>4. StoredOK(u)'
    BY <2>1, <2>3 DEF ObjectOK, StoredOK
  <2>5. RequestOK(u)'
    <3>1. request.object = u => request.type \in Types
      BY MigrationsAssumption DEF MigrationsInv, RequestTyped, NoRequest
    <3> QED
      BY <2>1, <2>2, <3>1 DEF ObjectOK, RequestOK
  <2>6. ASSUME NEW n \in Migrators PROVE InHandOK(n, u)'
    <3>1. CASE n = m
      BY <1>3, <3>1 DEF InHandOK, InHand
    <3>2. CASE n # m
      BY <2>1, <2>3, <3>2 DEF ObjectOK, InHandOK, Covers, OthersRun
    <3> QED
      BY <3>1, <3>2
  <2> QED
    BY <2>4, <2>5, <2>6 DEF ObjectOK
<1>4. ASSUME o \notin stale' PROVE ObjectOK(o)'
  <2>1. RequestOK(o)'
    BY <1>4 DEF RequestOK
  <2> QED
    BY <1>4, <2>1 DEF ObjectOK
<1> QED
  BY <1>2, <1>3, <1>4 DEF MigrationsInv

LEMMA WriteToKeeps ==
  ASSUME MigrationsInv, NEW m \in Migrators, WriteTo(m) PROVE MigrationsInv'
<1>1. run[m].at = "write" /\ UNCHANGED <<known, doubled, request>>
  BY DEF WriteTo
<1>2. /\ MigratorTyped(m) /\ DOMAIN run = Migrators /\ RunTyped /\ RelationsTyped
      /\ run[m].object \in Objects /\ run[m].moved \subseteq Relation /\ run[m].todo \subseteq Objects
  BY <1>1 DEF MigrationsInv, RunTyped, MigratorTyped, AtRename
<1>3. CASE NextObject(m, TRUE) /\ UNCHANGED <<relations, stale>>
  <2>1. run[m].at \in InHand
    BY <1>1 DEF InHand
  <2>2. RunTyped' /\ OthersRun(m) /\ run'[m].at \notin InHand
    BY <1>2, <1>3, <2>1, NextObjectTyped
  <2> QED
    BY <1>1, <1>3, <2>2, NothingStored DEF OthersRun
<1>4. PICK o \in Objects : o = run[m].object
  BY <1>2
<1>5. PICK moved \in SUBSET Relation : moved = run[m].moved
  BY <1>2
<1>6. CASE /\ relations' = [relations EXCEPT ![o]["to"] = moved]
           /\ run' = [run EXCEPT ![m].at = "remove"]
           /\ stale' = stale \cup ({o} \cap {request.object})
  <2>1. OthersRun(m) /\ run'[m] = [run[m] EXCEPT !.at = "remove"]
    BY <1>2, <1>6 DEF OthersRun
  <2>2. /\ DOMAIN run'[m] = Fields /\ run'[m].object = o /\ run'[m].at = "remove"
        /\ run'[m].moving = run[m].moving /\ run'[m].moved = moved /\ run'[m].todo = run[m].todo
    BY <1>2, <1>4, <1>5, <2>1 DEF MigratorTyped, Fields
  <2>3. RunTyped'
    <3>1. MigratorTyped(m)'
      BY <1>2, <2>2 DEF MigratorTyped, AtRename
    <3> QED
      BY <1>2, <2>1, <3>1, TypedStep
  <2>4. moved \in (SUBSET Relation) \cup {Nothing} /\ moved # Nothing
    BY MigrationsAssumption
  <2>5. Old(o)' = Old(o) /\ New(o)' = moved
    <3>1. /\ \A u \in Objects, t \in Types : u # o \/ t # "to" => Stored(u, t)' = Stored(u, t)
          /\ Stored(o, "to")' = IF moved = Nothing THEN {} ELSE moved
      BY <1>2, <1>6, <2>4, WrittenOne, TwoTypes
    <3> QED
      BY <2>4, <3>1, TwoTypes DEF Old, New
  <2>6. ASSUME o \notin stale' PROVE StoredOK(o)' /\ \A n \in Migrators : InHandOK(n, o)'
    <3>1. ObjectOK(o)
      BY <1>6, <2>6 DEF MigrationsInv
    <3>2. (\A r : Either(o, r)' <=> Either(o, r)) /\ known'[o] = known[o]
      BY <1>1 DEF Either
    <3>3. /\ Covers(o, moved)
          /\ \A r \in Old(o) : r.target \in TargetsOf(moved) => r \in moved \/ Either(o, r)
      BY <1>1, <1>4, <1>5, <3>1 DEF ObjectOK, InHandOK
    <3>4. StoredOK(o)'
      BY <2>5, <3>2, <3>3 DEF StoredOK, Covers
    <3>5. \A r \in known'[o] : r \in New(o)' \/ Either(o, r)'
      BY <2>5, <3>2, <3>3 DEF Covers
    <3>6. ASSUME NEW n \in Migrators PROVE InHandOK(n, o)'
      <4>1. CASE n = m
        BY <2>2, <3>5, <4>1 DEF InHandOK, Covers
      <4>2. CASE n # m
        <5>1. run'[n] = run[n] /\ InHandOK(n, o)
          BY <2>1, <3>1, <4>2 DEF OthersRun, ObjectOK
        <5> QED
          BY <2>5, <3>2, <3>5, <5>1 DEF InHandOK, Covers
      <4> QED
        BY <4>1, <4>2
    <3> QED
      BY <3>4, <3>6
  <2> QED
    BY <1>1, <1>6, <2>1, <2>2, <2>3, <2>4, <2>6, MigratorWrites, TwoTypes
<1> QED
  BY <1>3, <1>4, <1>5, <1>6 DEF WriteTo, WrittenByMigrator

LEMMA RemoveFromKeeps ==
  ASSUME MigrationsInv, NEW m \in Migrators, RemoveFrom(m) PROVE MigrationsInv'
<1>1. run[m].at = "remove" /\ UNCHANGED <<known, doubled, request>>
  BY DEF RemoveFrom
<1>2. /\ RunTyped /\ RelationsTyped /\ run[m].object \in Objects /\ run[m].todo \subseteq Objects
      /\ run[m].at \in InHand
  BY <1>1 DEF MigrationsInv, RunTyped, MigratorTyped, AtRename, InHand
<1>3. PICK failed \in BOOLEAN : NextObject(m, failed)
  BY DEF RemoveFrom
<1>4. RunTyped' /\ OthersRun(m) /\ run'[m].at \notin InHand
  BY <1>2, <1>3, NextObjectTyped
<1>5. CASE UNCHANGED <<relations, stale>>
  BY <1>1, <1>4, <1>5, NothingStored DEF OthersRun
<1>6. PICK o \in Objects : o = run[m].object
  BY <1>2
<1>7. CASE /\ relations' = [relations EXCEPT ![o]["from"] = Nothing]
           /\ stale' = stale \cup ({o} \cap {request.object})
  <2>1. Nothing \in (SUBSET Relation) \cup {Nothing}
    OBVIOUS
  <2>2. Old(o)' = {} /\ New(o)' = New(o)
    <3>1. /\ \A u \in Objects, t \in Types : u # o \/ t # "from" => Stored(u, t)' = Stored(u, t)
          /\ Stored(o, "from")' = IF Nothing = Nothing THEN {} ELSE Nothing
      BY <1>2, <1>7, <2>1, WrittenOne, TwoTypes
    <3> QED
      BY <3>1, TwoTypes DEF Old, New
  <2>3. ASSUME o \notin stale' PROVE StoredOK(o)' /\ \A n \in Migrators : InHandOK(n, o)'
    <3>1. ObjectOK(o)
      BY <1>7, <2>3 DEF MigrationsInv
    <3>2. (\A r : Either(o, r)' <=> Either(o, r)) /\ known'[o] = known[o]
      BY <1>1 DEF Either
    <3>3. Covers(o, New(o))
      BY <1>1, <1>6, <3>1 DEF ObjectOK, InHandOK
    <3>4. StoredOK(o)'
      BY <2>2, <3>2, <3>3 DEF StoredOK, Covers
    <3>5. ASSUME NEW n \in Migrators PROVE InHandOK(n, o)'
      <4>1. CASE n = m
        BY <1>4, <4>1 DEF InHandOK, InHand
      <4>2. CASE n # m
        <5>1. run'[n] = run[n] /\ InHandOK(n, o)
          BY <1>4, <3>1, <4>2 DEF OthersRun, ObjectOK
        <5> QED
          BY <2>2, <3>2, <3>3, <5>1 DEF InHandOK, Covers
      <4> QED
        BY <4>1, <4>2
    <3> QED
      BY <3>4, <3>5
  <2> QED
    BY <1>1, <1>4, <1>7, <2>1, <2>3, MigratorWrites, TwoTypes
<1> QED
  BY <1>5, <1>6, <1>7 DEF RemoveFrom, WrittenByMigrator

LEMMA RecordKeeps ==
  ASSUME MigrationsInv, NEW m \in Migrators, Record(m) PROVE MigrationsInv'
<1>1. /\ UNCHANGED <<relations, known, doubled, stale, request>>
      /\ run' = [run EXCEPT ![m] = Resting]
  BY DEF Record, files
<1>2. /\ DOMAIN Resting = Fields /\ Resting.moving = {} /\ Resting.moved = {}
      /\ Resting.at = "idle" /\ Resting.at \notin InHand
  BY DEF Resting, Fields, InHand
<1>3. RunTyped' /\ OthersRun(m) /\ run'[m].at \notin InHand
  BY <1>1, <1>2, RestingTyped DEF MigrationsInv
<1> QED
  BY <1>1, <1>3, NothingStored DEF OthersRun
-----------------------------------------------------------------------------
(* The other actions *)

\* A migrator that does not rename.
LEMMA AwayKeeps ==
  ASSUME MigrationsInv, NEW m \in Migrators, OthersRun(m), DOMAIN run'[m] = Fields,
         run'[m].moving \subseteq Relation, run'[m].moved \subseteq Relation,
         run'[m].at \notin AtRename,
         relations' = relations, known' = known, doubled' = doubled, stale' = stale,
         request' = request \/ request' = NoRequest
  PROVE  MigrationsInv'
<1>1. MigratorTyped(m)'
  BY DEF MigratorTyped, AtRename
<1>2. RunTyped'
  BY <1>1, TypedStep DEF MigrationsInv
<1>3. run'[m].at \notin InHand
  BY DEF AtRename, InHand
<1> QED
  BY <1>2, <1>3, NothingStored DEF OthersRun

LEMMA PeopleAway ==
  ASSUME RunTyped, NEW m \in Migrators, People(m)
  PROVE  /\ OthersRun(m) /\ DOMAIN run'[m] = Fields /\ run'[m].moving \subseteq Relation
         /\ run'[m].moved \subseteq Relation /\ run'[m].at \notin AtRename
<1>0. MigratorTyped(m) /\ DOMAIN run = Migrators
  BY DEF RunTyped
<1>1. CASE BeginPeople(m)
  <2>1. PICK found : run' = [run EXCEPT ![m].todo = found, ![m].at = "contacts"]
    BY <1>1 DEF BeginPeople
  <2>2. run'[m] = [run[m] EXCEPT !.todo = found, !.at = "contacts"]
    BY <1>0, <2>1
  <2> QED
    BY <1>0, <2>1, <2>2 DEF OthersRun, MigratorTyped, Fields, AtRename
<1>2. CASE LookAt(m)
  <2>1. PICK c : run' = [run EXCEPT ![m].todo = run[m].todo \ {c}, ![m].object = c,
                                    ![m].additions = Additions(c)]
    BY <1>2 DEF LookAt
  <2>2. run'[m] = [run[m] EXCEPT !.todo = run[m].todo \ {c}, !.object = c,
                                 !.additions = Additions(c)]
    BY <1>0, <2>1
  <2> QED
    BY <1>0, <1>2, <2>1, <2>2 DEF LookAt, OthersRun, MigratorTyped, Fields, AtRename
<1>3. CASE Add(m)
  <2>1. PICK additions : run' = [run EXCEPT ![m].additions = additions]
    BY <1>3 DEF Add
  <2>2. run'[m] = [run[m] EXCEPT !.additions = additions]
    BY <1>0, <2>1
  <2> QED
    BY <1>0, <1>3, <2>1, <2>2 DEF Add, OthersRun, MigratorTyped, Fields, AtRename
<1>4. CASE Added(m)
  <2>1. run' = [run EXCEPT ![m].object = Nothing]
    BY <1>4 DEF Added
  <2>2. run'[m] = [run[m] EXCEPT !.object = Nothing]
    BY <1>0, <2>1
  <2> QED
    BY <1>0, <1>4, <2>1, <2>2 DEF Added, OthersRun, MigratorTyped, Fields, AtRename
<1>5. CASE EndPeople(m)
  <2>1. run' = [run EXCEPT ![m] = Resting]
    BY <1>5 DEF EndPeople
  <2> QED
    BY <1>0, <2>1 DEF OthersRun, Resting, Fields, AtRename
<1> QED
  BY <1>1, <1>2, <1>3, <1>4, <1>5 DEF People

LEMMA PeopleKeeps ==
  ASSUME MigrationsInv, NEW m \in Migrators, People(m) PROVE MigrationsInv'
<1>1. UNCHANGED <<relations, known, doubled, stale, request>>
  BY DEF People, BeginPeople, LookAt, Add, Added, EndPeople, files, history
<1> QED
  BY <1>1, PeopleAway, AwayKeeps DEF MigrationsInv

\* A migrator begins or is stopped.
LEMMA StartKeeps ==
  ASSUME MigrationsInv, NEW m \in Migrators, UNCHANGED <<relations, known, doubled, stale>>,
         request' = request \/ request' = NoRequest,
         \/ run' = [run EXCEPT ![m].at = "asked"]
         \/ run' = [run EXCEPT ![m].at = "people"]
         \/ run' = [run EXCEPT ![m] = Resting]
  PROVE  MigrationsInv'
<1>1. MigratorTyped(m) /\ DOMAIN run = Migrators
  BY DEF MigrationsInv, RunTyped
<1>2. OthersRun(m)
  BY <1>1 DEF OthersRun
<1>3. /\ DOMAIN run'[m] = Fields /\ run'[m].moving \subseteq Relation
      /\ run'[m].moved \subseteq Relation /\ run'[m].at \notin AtRename
  <2>1. CASE run'[m] = [run[m] EXCEPT !.at = "asked"]
    BY <1>1, <2>1 DEF MigratorTyped, Fields, AtRename
  <2>2. CASE run'[m] = [run[m] EXCEPT !.at = "people"]
    BY <1>1, <2>2 DEF MigratorTyped, Fields, AtRename
  <2>3. CASE run'[m] = Resting
    BY <2>3 DEF Resting, Fields, AtRename
  <2> QED
    BY <1>1, <2>1, <2>2, <2>3
<1> QED
  BY <1>2, <1>3, AwayKeeps

LEMMA ReadRelationsKeeps ==
  ASSUME MigrationsInv, ReadRelations PROVE MigrationsInv'
<1>1. UNCHANGED <<relations, known, doubled, stale, run>>
  BY DEF ReadRelations, files
<1>2. PICK o \in Objects, type \in Types, r \in Relation, add \in BOOLEAN :
        request' = [object |-> o, type |-> type, read |-> Stored(o, type), relation |-> r, add |-> add]
  BY DEF ReadRelations
<1>3. Stored(o, type) \in SUBSET Relation
  BY <1>2, StoredTyped DEF MigrationsInv, Old, New, Types
<1>4. RelationsTyped' /\ RunTyped' /\ RequestTyped'
  BY <1>1, <1>2, <1>3 DEF MigrationsInv, RelationsTyped, RunTyped, MigratorTyped, RequestTyped
<1>5. ASSUME NEW u \in Objects, u \notin stale' PROVE ObjectOK(u)'
  <2>1. ObjectOK(u)
    BY <1>1, <1>5 DEF MigrationsInv
  <2>2. StoredOK(u)' /\ \A m \in Migrators : InHandOK(m, u)'
    BY <1>1, <2>1 DEF ObjectOK, StoredOK, InHandOK, Covers, Old, New, Stored, Either
  <2>3. RequestOK(u)'
    BY <1>1, <1>2 DEF RequestOK, Stored
  <2> QED
    BY <2>2, <2>3 DEF ObjectOK
<1> QED
  BY <1>4, <1>5 DEF MigrationsInv

LEMMA WriteRelationsKeeps ==
  ASSUME MigrationsInv, WriteRelations PROVE MigrationsInv'
<1>1. /\ request \in [object : Objects, type : Types, read : SUBSET Relation, relation : Relation,
                      add : BOOLEAN]
      /\ request' = NoRequest /\ UNCHANGED run /\ RelationsTyped
  BY DEF WriteRelations, MigrationsInv, RequestTyped
<1>2. PICK o \in Objects, type \in Types, r \in Relation, add \in BOOLEAN :
        o = request.object /\ type = request.type /\ r = request.relation /\ add = request.add
  BY <1>1
<1>3. PICK new \in SUBSET Relation :
        new = IF add THEN request.read \cup {r} ELSE request.read \ {r}
  BY <1>1
<1>4. PICK other \in Types : other = CHOOSE t \in Types : t # type
  BY DEF Types
<1>5. PICK v \in (SUBSET Relation) \cup {Nothing} : v = IF new = {} THEN Nothing ELSE new
  OBVIOUS
<1>6. /\ relations' = [relations EXCEPT ![o][type] = v]
      /\ known' = [known EXCEPT ![o] = IF add THEN known[o] \cup {r} ELSE known[o] \ {r}]
      /\ doubled' = [doubled EXCEPT ![o] =
                       doubled[o] \cup (TargetsOf(new) \cap TargetsOf(Stored(o, other)))]
      /\ stale' = stale \cup ({o} \cap (InHandOf(Server) \cup InHandOf(Cli)))
  BY <1>2, <1>3, <1>4, <1>5 DEF WriteRelations
<1>7. other # type
  BY <1>4 DEF Types
<1>8. /\ relations' \in [Objects -> [Types -> (SUBSET Relation) \cup {Nothing}]]
      /\ \A u \in Objects, t \in Types : u # o \/ t # type => Stored(u, t)' = Stored(u, t)
      /\ Stored(o, type)' = new
  <2>1. /\ relations' \in [Objects -> [Types -> (SUBSET Relation) \cup {Nothing}]]
        /\ \A u \in Objects, t \in Types : u # o \/ t # type => Stored(u, t)' = Stored(u, t)
        /\ Stored(o, type)' = IF v = Nothing THEN {} ELSE v
    BY <1>1, <1>6, WrittenOne
  <2>2. new # Nothing
    BY MigrationsAssumption
  <2> QED
    BY <1>5, <2>1, <2>2
<1>9. RelationsTyped' /\ RunTyped' /\ RequestTyped'
  BY <1>1, <1>6, <1>8 DEF MigrationsInv, RelationsTyped, RunTyped, MigratorTyped, RequestTyped
<1>10. ASSUME NEW u \in Objects PROVE RequestOK(u)'
  BY <1>1, MigrationsAssumption DEF RequestOK, NoRequest
<1>11. ASSUME NEW u \in Objects, u \notin stale', u # o PROVE ObjectOK(u)'
  <2>1. ObjectOK(u)
    BY <1>6, <1>11 DEF MigrationsInv
  <2>2. known'[u] = known[u] /\ doubled'[u] = doubled[u]
    BY <1>1, <1>6, <1>11 DEF RelationsTyped
  <2>3. Old(u)' = Old(u) /\ New(u)' = New(u) /\ (\A s : Either(u, s)' <=> Either(u, s))
    BY <1>8, <1>11, <2>2, TwoTypes DEF Old, New, Either
  <2>4. StoredOK(u)' /\ \A m \in Migrators : InHandOK(m, u)'
    BY <1>1, <2>1, <2>2, <2>3 DEF ObjectOK, StoredOK, InHandOK, Covers
  <2> QED
    BY <1>10, <2>4 DEF ObjectOK
<1>12. ASSUME o \notin stale' PROVE ObjectOK(o)'
  <2>1. ObjectOK(o) /\ o \notin InHandOf(Server) \cup InHandOf(Cli)
    BY <1>6, <1>12 DEF MigrationsInv
  <2>2. \A m \in Migrators : InHandOK(m, o)'
    <3>1. ASSUME NEW m \in Migrators PROVE InHandOK(m, o)'
      <4>1. run'[m] = run[m] /\ (run[m].at \in InHand => run[m].object # o)
        BY <1>1, <2>1 DEF InHandOf, InHand, Migrators
      <4> QED
        BY <4>1 DEF InHandOK, InHand
    <3> QED
      BY <3>1
  <2>3. request.read = Stored(o, type)
    BY <1>2, <2>1 DEF ObjectOK, RequestOK
  <2>4. /\ known'[o] = IF add THEN known[o] \cup {r} ELSE known[o] \ {r}
        /\ doubled'[o] = doubled[o] \cup (TargetsOf(new) \cap TargetsOf(Stored(o, other)))
    BY <1>1, <1>6 DEF RelationsTyped
  <2>5. \A s : Either(o, s) => Either(o, s)'
    BY <2>4 DEF Either
  <2>6. \A s : s.target \in TargetsOf(new) /\ s.target \in TargetsOf(Stored(o, other)) => Either(o, s)'
    BY <2>4 DEF Either
  <2>7. Stored(o, other)' = Stored(o, other)
    BY <1>7, <1>8
  <2>8. \A s \in known'[o] : s \in new \cup Stored(o, other) \/ Either(o, s)'
    <3>1. \A s \in known[o] : s \in Stored(o, type) \cup Stored(o, other) \/ Either(o, s)
      BY <1>7, <2>1 DEF ObjectOK, StoredOK, Old, New, Types
    <3> QED
      BY <1>3, <2>3, <2>4, <2>5, <3>1
  <2>9. StoredOK(o)'
    <3>1. CASE type = "to"
      <4>1. other = "from" /\ New(o)' = new /\ Old(o)' = Old(o) /\ Old(o) = Stored(o, other)
        BY <1>7, <1>8, <2>7, <3>1 DEF Types, Old, New
      <4>2. \A s \in Old(o) : s.target \in TargetsOf(Stored(o, other))
        BY <4>1 DEF TargetsOf
      <4> QED
        BY <2>6, <2>8, <4>1, <4>2 DEF StoredOK
    <3>2. CASE type = "from"
      <4>1. other = "to" /\ Old(o)' = new /\ New(o)' = New(o) /\ New(o) = Stored(o, other)
        BY <1>7, <1>8, <2>7, <3>2 DEF Types, Old, New
      <4>2. \A s \in new : s.target \in TargetsOf(new)
        BY DEF TargetsOf
      <4> QED
        BY <2>6, <2>8, <4>1, <4>2 DEF StoredOK
    <3> QED
      BY <3>1, <3>2 DEF Types
  <2> QED
    BY <1>10, <2>2, <2>9 DEF ObjectOK
<1> QED
  BY <1>9, <1>11, <1>12 DEF MigrationsInv

-----------------------------------------------------------------------------
(* The theorem *)

LEMMA InitHolds == ASSUME Init PROVE MigrationsInv
<1>1. RelationsTyped
  <2>1. relations \in [Objects -> [Types -> Messages \cup {Nothing}]]
    BY DEF Init
  <2>2. Messages \cup {Nothing} \subseteq (SUBSET Relation) \cup {Nothing}
    BY MigrationsAssumption
  <2>3. relations \in [Objects -> [Types -> (SUBSET Relation) \cup {Nothing}]]
    BY <2>1, <2>2
  <2> QED
    BY <2>3 DEF Init, RelationsTyped
<1>2. RunTyped
  BY DEF Init, RunTyped, MigratorTyped, Resting, Fields, AtRename
<1>3. RequestTyped
  BY DEF Init, RequestTyped
<1>4. ASSUME NEW o \in Objects PROVE ObjectOK(o)
  <2>1. known[o] = Old(o) \cup New(o) /\ doubled[o] = TargetsOf(Old(o)) \cap TargetsOf(New(o))
    BY DEF Init, Old, New
  <2>2. \A r \in Old(o) : r.target \in TargetsOf(Old(o))
    BY DEF TargetsOf
  <2>3. StoredOK(o)
    BY <2>1, <2>2 DEF StoredOK, Either
  <2>4. RequestOK(o)
    BY MigrationsAssumption DEF Init, RequestOK, NoRequest
  <2>5. \A m \in Migrators : InHandOK(m, o)
    BY DEF Init, InHandOK, Resting
  <2> QED
    BY <2>3, <2>4, <2>5 DEF ObjectOK
<1> QED
  BY <1>1, <1>2, <1>3, <1>4 DEF MigrationsInv

LEMMA NextKeeps == ASSUME MigrationsInv, [Next]_vars PROVE MigrationsInv'
<1> Server \in Migrators /\ Cli \in Migrators
  BY DEF Migrators
<1>1. ASSUME NEW m \in Migrators, Rename(m) PROVE MigrationsInv'
  BY <1>1, BeginRenameKeeps, ReadFromKeeps, ReadToKeeps, WriteToKeeps, RemoveFromKeeps, RecordKeeps
     DEF Rename
<1>2. ASSUME NEW m \in Migrators, People(m) PROVE MigrationsInv'
  BY <1>2, PeopleKeeps
<1>3. ASSUME NEW m \in Migrators, StartPeople(m) PROVE MigrationsInv'
  BY <1>3, StartKeeps DEF StartPeople, files
<1>4. CASE ReadRelations
  BY <1>4, ReadRelationsKeeps
<1>5. CASE WriteRelations
  BY <1>5, WriteRelationsKeeps
<1>6. CASE EditContact
  <2>1. UNCHANGED <<relations, known, doubled, stale, run, request>>
    BY <1>6 DEF EditContact
  <2>2. RunTyped'
    BY <2>1 DEF MigrationsInv, RunTyped, MigratorTyped
  <2> QED
    BY <2>1, <2>2, NothingStored
<1>7. CASE StartServer
  BY <1>7, StartKeeps DEF StartServer, files
<1>8. CASE StartCli
  BY <1>8, StartKeeps DEF StartCli, files
<1>9. CASE StopServer
  BY <1>9, StartKeeps DEF StopServer, files, history
<1>10. CASE StopCli
  BY <1>10, StartKeeps DEF StopCli, files, history
<1>11. CASE UNCHANGED vars
  <2>1. UNCHANGED <<relations, known, doubled, stale, run, request>>
    BY <1>11 DEF vars, files, history
  <2>2. RunTyped'
    BY <2>1 DEF MigrationsInv, RunTyped, MigratorTyped
  <2> QED
    BY <2>1, <2>2, NothingStored
<1> QED
  BY <1>1, <1>2, <1>3, <1>4, <1>5, <1>6, <1>7, <1>8, <1>9, <1>10, <1>11 DEF Next

\* Whatever cuts the renaming off, fails, or runs beside it, each relation stays stored under the old
\* or the new type (RenameRelationTypes of Migrations.cpp).
THEOREM RelationsAlwaysSurvive == Spec => []RelationsSurvive
<1>1. MigrationsInv => RelationsSurvive
  BY DEF MigrationsInv, ObjectOK, StoredOK, RelationsSurvive, Old, New, Either
<1> QED
  BY <1>1, InitHolds, NextKeeps, PTL DEF Spec

-----------------------------------------------------------------------------
(* A step that is recorded is complete *)

\* All objects but those to come have no relations of the old type.
Renamed(todo) == \A o \in Objects \ (renewed \cup skipped \cup todo) : relations[o]["from"] = Nothing

CompleteOK(m) == run[m].at \in AtRename /\ ~run[m].failed => Renamed(run[m].todo)

CompleteInv == RecordedIsRenamed /\ \A m \in Migrators : CompleteOK(m)

\* No object gets relations of the old type but those that count as renewed.
LEMMA RenamedStays ==
  ASSUME renewed \subseteq renewed', skipped \subseteq skipped', NEW todo,
         \A o \in Objects : relations'[o]["from"] \in {relations[o]["from"], Nothing} \/ o \in renewed',
         Renamed(todo)
  PROVE  Renamed(todo)'
  BY DEF Renamed

LEMMA CompleteStep ==
  ASSUME CompleteInv, NEW m \in Migrators, OthersRun(m), CompleteOK(m)',
         renewed \subseteq renewed', skipped \subseteq skipped', version' = version,
         \A o \in Objects : relations'[o]["from"] \in {relations[o]["from"], Nothing} \/ o \in renewed'
  PROVE  CompleteInv'
<1>1. RecordedIsRenamed'
  BY DEF CompleteInv, RecordedIsRenamed
<1>2. ASSUME NEW n \in Migrators PROVE CompleteOK(n)'
  <2>1. CASE n = m
    BY <2>1
  <2>2. CASE n # m
    BY <2>2 DEF CompleteInv, CompleteOK, OthersRun, Renamed
  <2> QED
    BY <2>1, <2>2
<1> QED
  BY <1>1, <1>2 DEF CompleteInv

LEMMA RenameCompletes ==
  ASSUME MigrationsInv, CompleteInv, NEW m \in Migrators, Rename(m) PROVE CompleteInv'
<1>1. MigratorTyped(m) /\ DOMAIN run = Migrators /\ RelationsTyped
  BY DEF MigrationsInv, RunTyped
<1>2. CASE BeginRename(m)
  <2>1. UNCHANGED <<relations, version, renewed, skipped>>
    BY <1>2 DEF BeginRename, files
  <2>2. PICK rec : run' = [run EXCEPT ![m] = rec] /\
                   rec \in {Resting, [Resting EXCEPT !.at = "rename", !.todo = Objects],
                            [Resting EXCEPT !.at = "rename", !.failed = TRUE]}
    BY <1>2 DEF BeginRename
  <2>3. rec.at = "idle" \/ rec.todo = Objects \/ rec.failed = TRUE
    <3>1. CASE rec = Resting
      BY <3>1 DEF Resting
    <3>2. CASE rec = [Resting EXCEPT !.at = "rename", !.todo = Objects]
      BY <3>2 DEF Resting
    <3>3. CASE rec = [Resting EXCEPT !.at = "rename", !.failed = TRUE]
      BY <3>3 DEF Resting
    <3> QED
      BY <2>2, <3>1, <3>2, <3>3
  <2>4. OthersRun(m) /\ CompleteOK(m)'
    BY <1>1, <2>2, <2>3 DEF OthersRun, CompleteOK, Renamed, AtRename
  <2> QED
    BY <2>1, <2>4, CompleteStep
<1>3. CASE ReadFrom(m)
  <2>1. /\ UNCHANGED <<relations, version, renewed>> /\ skipped \subseteq skipped'
        /\ run[m].at \in AtRename
    BY <1>3 DEF ReadFrom, files, AtRename
  <2>2. PICK o \in run[m].todo :
          \/ run' = [run EXCEPT ![m].object = o, ![m].moving = relations[o]["from"], ![m].at = "to"]
          \/ /\ run' = [run EXCEPT ![m].todo = run[m].todo \ {o}]
             /\ relations[o]["from"] = Nothing \/ o \in skipped'
    BY <1>3 DEF ReadFrom
  <2>3. OthersRun(m) /\ run'[m].failed = run[m].failed
    BY <1>1, <2>2 DEF OthersRun, MigratorTyped, Fields
  <2>4. \/ run'[m].todo = run[m].todo
        \/ /\ run'[m].todo = run[m].todo \ {o}
           /\ relations[o]["from"] = Nothing \/ o \in skipped'
    BY <1>1, <2>2 DEF MigratorTyped, Fields
  <2>5. ASSUME ~run'[m].failed PROVE Renamed(run[m].todo)'
    <3>1. Renamed(run[m].todo)
      BY <2>1, <2>3, <2>5 DEF CompleteInv, CompleteOK
    <3> QED
      BY <2>1, <2>4, <3>1 DEF Renamed
  <2> QED
    BY <2>1, <2>3, <2>5, CompleteStep DEF CompleteOK, Renamed
<1>4. CASE ReadTo(m)
  <2>1. UNCHANGED <<relations, version, renewed, skipped>> /\ run[m].at \in AtRename
    BY <1>4 DEF ReadTo, files, history, AtRename
  <2>2. OthersRun(m) /\ run'[m].failed = run[m].failed /\ run'[m].todo = run[m].todo
    BY <1>1, <1>4 DEF ReadTo, OthersRun, MigratorTyped, Fields
  <2>3. CompleteOK(m)'
    BY <2>1, <2>2 DEF CompleteInv, CompleteOK, Renamed
  <2> QED
    BY <2>1, <2>2, <2>3, CompleteStep
<1>5. ASSUME NextObject(m, TRUE), UNCHANGED <<relations, version, renewed, skipped>>
      PROVE  CompleteInv'
  <2>1. OthersRun(m) /\ run'[m].failed
    BY <1>1, <1>5 DEF NextObject, OthersRun, Resting
  <2>2. CompleteOK(m)'
    BY <2>1 DEF CompleteOK
  <2> QED
    BY <1>5, <2>1, <2>2, CompleteStep
<1>6. CASE WriteTo(m)
  <2>1. UNCHANGED <<version, renewed, skipped>> /\ run[m].at \in AtRename /\ run[m].object \in Objects
    BY <1>1, <1>6 DEF WriteTo, AtRename, MigratorTyped
  <2>2. CASE NextObject(m, TRUE) /\ UNCHANGED relations
    BY <1>5, <2>1, <2>2
  <2>3. CASE /\ relations' = [relations EXCEPT ![run[m].object]["to"] = run[m].moved]
             /\ run' = [run EXCEPT ![m].at = "remove"]
    <3>1. OthersRun(m) /\ run'[m].failed = run[m].failed /\ run'[m].todo = run[m].todo
      BY <1>1, <2>3 DEF OthersRun, MigratorTyped, Fields
    <3>2. \A o \in Objects : relations'[o]["from"] = relations[o]["from"]
      BY <1>1, <2>1, <2>3, TwoTypes DEF RelationsTyped
    <3>3. CompleteOK(m)'
      BY <2>1, <3>1, <3>2 DEF CompleteInv, CompleteOK, Renamed
    <3> QED
      BY <2>1, <3>1, <3>2, <3>3, CompleteStep
  <2> QED
    BY <1>6, <2>2, <2>3 DEF WriteTo
<1>7. CASE RemoveFrom(m)
  <2>1. /\ UNCHANGED <<version, renewed, skipped>> /\ run[m].at \in AtRename
        /\ run[m].object \in Objects
    BY <1>1, <1>7 DEF RemoveFrom, AtRename, MigratorTyped
  <2>2. CASE NextObject(m, TRUE) /\ UNCHANGED relations
    BY <1>5, <2>1, <2>2
  <2>3. CASE /\ relations' = [relations EXCEPT ![run[m].object]["from"] = Nothing]
             /\ NextObject(m, FALSE)
    <3>1. /\ OthersRun(m) /\ run'[m].failed = (run[m].failed \/ FALSE)
          /\ run'[m].todo = run[m].todo \ {run[m].object}
      BY <1>1, <2>3 DEF NextObject, OthersRun, Resting
    <3>2. /\ \A o \in Objects : o # run[m].object => relations'[o]["from"] = relations[o]["from"]
          /\ relations'[run[m].object]["from"] = Nothing
      BY <1>1, <2>1, <2>3, TwoTypes DEF RelationsTyped
    <3>3. ASSUME ~run'[m].failed PROVE Renamed(run[m].todo)'
      <4>1. ~run[m].failed
        BY <3>1, <3>3
      <4>2. Renamed(run[m].todo)
        BY <2>1, <4>1 DEF CompleteInv, CompleteOK
      <4> QED
        BY <2>1, <3>1, <3>2, <4>2 DEF Renamed
    <3>4. CompleteOK(m)'
      BY <3>3 DEF CompleteOK, Renamed
    <3> QED
      BY <2>1, <3>1, <3>2, <3>4, CompleteStep
  <2> QED
    BY <1>7, <2>2, <2>3 DEF RemoveFrom
<1>8. CASE Record(m)
  <2>1. /\ UNCHANGED <<relations, renewed, skipped>> /\ run' = [run EXCEPT ![m] = Resting]
        /\ run[m].at \in AtRename /\ run[m].todo = {}
        /\ version' = version \/ (version' = 1 /\ ~run[m].failed)
    BY <1>8 DEF Record, files, AtRename
  <2>2. ASSUME NEW n \in Migrators PROVE CompleteOK(n)'
    <3>1. CASE n = m
      BY <1>1, <2>1, <3>1 DEF CompleteOK, Resting, AtRename
    <3>2. CASE n # m
      BY <1>1, <2>1, <3>2 DEF CompleteInv, CompleteOK, Renamed
    <3> QED
      BY <3>1, <3>2
  <2>3. RecordedIsRenamed'
    <3>1. CASE version' = version
      BY <2>1, <3>1 DEF CompleteInv, RecordedIsRenamed
    <3>2. CASE ~run[m].failed
      BY <2>1, <3>2 DEF CompleteInv, CompleteOK, Renamed, RecordedIsRenamed
    <3> QED
      BY <2>1, <3>1, <3>2
  <2> QED
    BY <2>2, <2>3 DEF CompleteInv
<1> QED
  BY <1>2, <1>3, <1>4, <1>6, <1>7, <1>8 DEF Rename

\* A migrator that does not rename.
LEMMA AwayCompletes ==
  ASSUME MigrationsInv, CompleteInv, NEW m \in Migrators, OthersRun(m), run'[m].at \notin AtRename,
         UNCHANGED <<relations, version, renewed, skipped>>
  PROVE  CompleteInv'
  BY CompleteStep DEF CompleteOK

LEMMA NextCompletes == ASSUME MigrationsInv, CompleteInv, [Next]_vars PROVE CompleteInv'
<1> USE DEF Migrators
<1>1. DOMAIN run = Migrators /\ RelationsTyped
  BY DEF MigrationsInv, RunTyped
<1>2. ASSUME NEW m \in Migrators, Rename(m) PROVE CompleteInv'
  BY <1>2, RenameCompletes
<1>3. ASSUME NEW m \in Migrators, UNCHANGED <<relations, version, renewed, skipped>>, OthersRun(m),
             run'[m].at \notin AtRename
      PROVE  CompleteInv'
  BY <1>3, AwayCompletes
<1>4. ASSUME NEW m \in Migrators, People(m) PROVE CompleteInv'
  <2>1. UNCHANGED <<relations, version, renewed, skipped>>
    BY <1>4 DEF People, BeginPeople, LookAt, Add, Added, EndPeople, files, history
  <2>2. OthersRun(m) /\ run'[m].at \notin AtRename
    BY <1>4, PeopleAway DEF MigrationsInv
  <2> QED
    BY <1>3, <2>1, <2>2
<1>5. ASSUME NEW m \in Migrators, StartPeople(m) PROVE CompleteInv'
  <2>1. MigratorTyped(m)
    BY DEF MigrationsInv, RunTyped
  <2> QED
    BY <1>1, <1>3, <1>5, <2>1 DEF StartPeople, files, OthersRun, AtRename, MigratorTyped, Fields
<1>6. CASE ReadRelations
  BY <1>6 DEF ReadRelations, files, CompleteInv, CompleteOK, RecordedIsRenamed, Renamed
<1>7. CASE WriteRelations
  <2>1. /\ UNCHANGED <<run, version, skipped>> /\ renewed \subseteq renewed'
        /\ request.object \in Objects /\ request.type \in Types
    BY <1>7 DEF WriteRelations, MigrationsInv, RequestTyped
  <2>2. PICK new : /\ relations' = [relations EXCEPT ![request.object][request.type] =
                                      IF new = {} THEN Nothing ELSE new]
                   /\ renewed' = IF request.type = "from" /\ new # {}
                                 THEN renewed \cup {request.object} ELSE renewed
    BY <1>7 DEF WriteRelations
  <2>3. \A o \in Objects : relations'[o]["from"] \in {relations[o]["from"], Nothing} \/ o \in renewed'
    BY <1>1, <2>1, <2>2, TwoTypes DEF RelationsTyped
  <2>4. \A todo : Renamed(todo) => Renamed(todo)'
    BY <2>1, <2>3 DEF Renamed
  <2>5. RecordedIsRenamed'
    BY <2>1, <2>3 DEF CompleteInv, RecordedIsRenamed
  <2>6. \A m \in Migrators : CompleteOK(m)'
    BY <2>1, <2>4 DEF CompleteInv, CompleteOK, Renamed
  <2> QED
    BY <2>5, <2>6 DEF CompleteInv
<1>8. CASE EditContact
  BY <1>8 DEF EditContact, CompleteInv, CompleteOK, RecordedIsRenamed, Renamed
<1>9. CASE StartServer
  <2>1. MigratorTyped(Server)
    BY DEF MigrationsInv, RunTyped
  <2> QED
    BY <1>1, <1>3, <1>9, <2>1 DEF StartServer, files, OthersRun, AtRename, MigratorTyped, Fields
<1>10. CASE StartCli
  <2>1. MigratorTyped(Cli)
    BY DEF MigrationsInv, RunTyped
  <2> QED
    BY <1>1, <1>3, <1>10, <2>1 DEF StartCli, files, OthersRun, AtRename, MigratorTyped, Fields
<1>11. CASE StopServer
  BY <1>1, <1>3, <1>11 DEF StopServer, files, history, OthersRun, AtRename, Resting
<1>12. CASE StopCli
  BY <1>1, <1>3, <1>12 DEF StopCli, files, history, OthersRun, AtRename, Resting
<1>13. CASE UNCHANGED vars
  BY <1>13 DEF vars, files, history, CompleteInv, CompleteOK, RecordedIsRenamed, Renamed
<1> QED
  BY <1>2, <1>4, <1>5, <1>6, <1>7, <1>8, <1>9, <1>10, <1>11, <1>12, <1>13 DEF Next

\* The data version is recorded only when every object that could be read has been moved, however
\* often the step was cut off, failed or ran twice at a time (MigrationRunner::Run).
THEOREM RecordedIsAlwaysRenamed == Spec => []RecordedIsRenamed
<1>1. Init => CompleteInv
  BY DEF Init, CompleteInv, CompleteOK, RecordedIsRenamed, Resting, AtRename
<1>2. CompleteInv => RecordedIsRenamed
  BY DEF CompleteInv
<1> QED
  BY <1>1, <1>2, InitHolds, NextKeeps, NextCompletes, PTL DEF Spec

-----------------------------------------------------------------------------
(* What a contact has stays *)

\* What a migrator is going to add is missing, or was written after the migrator had looked at the
\* contact.  Only a migrator that goes through the contacts is going to add anything.
AdditionsOK(m) ==
  /\ run[m].at # "contacts" => DOMAIN run[m].additions = {}
  /\ \A c \in Contacts :
       /\ Planned(m, c) \subseteq Standards
       /\ \A a \in Planned(m, c) : standard[c][a] = Nothing \/ <<m, c, a>> \in late

AdditionsInv ==
  /\ DOMAIN standard = Contacts /\ \A c \in Contacts : DOMAIN standard[c] = Standards
  /\ DOMAIN run = Migrators /\ \A m \in Migrators : DOMAIN run[m] = Fields
  /\ ~running => run[Server].at \notin {"people", "contacts"}
  /\ \A m \in Migrators : AdditionsOK(m)

\* A step of one migrator that writes no attribute of a contact.
LEMMA ReadsContacts ==
  ASSUME AdditionsInv, NEW m \in Migrators, UNCHANGED <<standard, running>>, late \subseteq late',
         OthersRun(m), DOMAIN run'[m] = Fields, AdditionsOK(m)',
         m = Server /\ ~running => run'[m].at \notin {"people", "contacts"}
  PROVE  AdditionsInv'
<1>1. ASSUME NEW n \in Migrators PROVE AdditionsOK(n)' /\ DOMAIN run'[n] = Fields
  <2>1. CASE n = m
    BY <2>1
  <2>2. CASE n # m
    BY <2>2 DEF AdditionsInv, AdditionsOK, OthersRun, Planned
  <2> QED
    BY <2>1, <2>2
<1>2. ~running' => run'[Server].at \notin {"people", "contacts"}
  BY DEF AdditionsInv, OthersRun, Migrators
<1> QED
  BY <1>1, <1>2 DEF AdditionsInv, OthersRun

\* It is going to add nothing afterwards.
LEMMA AddsNothing ==
  ASSUME AdditionsInv, NEW m \in Migrators, UNCHANGED <<standard, running>>, late \subseteq late',
         OthersRun(m), DOMAIN run'[m] = Fields, DOMAIN run'[m].additions = {},
         m = Server /\ ~running => run'[m].at \notin {"people", "contacts"}
  PROVE  AdditionsInv'
<1>1. AdditionsOK(m)'
  BY DEF AdditionsOK, Planned
<1> QED
  BY <1>1, ReadsContacts

LEMMA RestingAddsNothing == DOMAIN Resting.additions = {} /\ DOMAIN Resting = Fields /\ Resting.at = "idle"
  BY DEF Resting, Fields

LEMMA RenameKeepsAdditions ==
  ASSUME AdditionsInv, NEW m \in Migrators, Rename(m) PROVE AdditionsInv'
<1>1. UNCHANGED <<standard, running, late>>
  BY DEF Rename, BeginRename, ReadFrom, ReadTo, WriteTo, RemoveFrom, Record, files, history
<1>2. run[m].at \in AtRename \cup {"asked"}
  BY DEF Rename, BeginRename, ReadFrom, ReadTo, WriteTo, RemoveFrom, Record, AtRename
<1>3. /\ DOMAIN run = Migrators /\ DOMAIN run[m] = Fields /\ DOMAIN run[m].additions = {}
  BY <1>2 DEF AdditionsInv, AdditionsOK, AtRename
<1>4. CASE BeginRename(m)
  <2>1. PICK rec : run' = [run EXCEPT ![m] = rec] /\
                   rec \in {Resting, [Resting EXCEPT !.at = "rename", !.todo = Objects],
                            [Resting EXCEPT !.at = "rename", !.failed = TRUE]}
    BY <1>4 DEF BeginRename
  <2>2. DOMAIN rec = Fields /\ DOMAIN rec.additions = {} /\ rec.at \in {"idle", "rename"}
    <3>1. CASE rec = Resting
      BY <3>1, RestingAddsNothing
    <3>2. CASE rec = [Resting EXCEPT !.at = "rename", !.todo = Objects]
      BY <3>2 DEF Resting, Fields
    <3>3. CASE rec = [Resting EXCEPT !.at = "rename", !.failed = TRUE]
      BY <3>3 DEF Resting, Fields
    <3> QED
      BY <2>1, <3>1, <3>2, <3>3
  <2>3. OthersRun(m) /\ run'[m] = rec
    BY <1>3, <2>1 DEF OthersRun
  <2> QED
    BY <1>1, <2>2, <2>3, AddsNothing
<1>5. CASE NextObject(m, TRUE) \/ NextObject(m, FALSE)
  <2>1. PICK todo, failed :
          run' = [run EXCEPT ![m] = [Resting EXCEPT !.at = "rename", !.todo = todo, !.failed = failed]]
    BY <1>5 DEF NextObject
  <2>2. OthersRun(m)
    BY <1>3, <2>1 DEF OthersRun
  <2>3. run'[m] = [Resting EXCEPT !.at = "rename", !.todo = todo, !.failed = failed]
    BY <1>3, <2>1
  <2>4. DOMAIN run'[m] = Fields /\ DOMAIN run'[m].additions = {} /\ run'[m].at = "rename"
    BY <2>3 DEF Resting, Fields
  <2> QED
    BY <1>1, <2>2, <2>4, AddsNothing
<1>6. ASSUME OthersRun(m), DOMAIN run'[m] = Fields, run'[m].additions = run[m].additions,
             run'[m].at \in AtRename
      PROVE  AdditionsInv'
  BY <1>1, <1>3, <1>6, AddsNothing DEF AtRename
<1>7. CASE ReadFrom(m)
  <2>1. PICK o \in run[m].todo :
          \/ run' = [run EXCEPT ![m].object = o, ![m].moving = relations[o]["from"], ![m].at = "to"]
          \/ run' = [run EXCEPT ![m].todo = run[m].todo \ {o}]
    BY <1>7 DEF ReadFrom
  <2>2. run[m].at = "rename"
    BY <1>7 DEF ReadFrom
  <2> QED
    BY <1>3, <1>6, <2>1, <2>2 DEF OthersRun, Fields, AtRename
<1>8. CASE ReadTo(m)
  BY <1>3, <1>6, <1>8 DEF ReadTo, OthersRun, Fields, AtRename
<1>9. CASE WriteTo(m)
  <2>1. CASE run' = [run EXCEPT ![m].at = "remove"]
    BY <1>3, <1>6, <2>1 DEF OthersRun, Fields, AtRename
  <2> QED
    BY <1>5, <1>9, <2>1 DEF WriteTo
<1>10. CASE RemoveFrom(m)
  BY <1>5, <1>10 DEF RemoveFrom
<1>11. CASE Record(m)
  <2>1. OthersRun(m) /\ run'[m] = Resting
    BY <1>3, <1>11 DEF Record, OthersRun
  <2> QED
    BY <1>1, <2>1, AddsNothing, RestingAddsNothing
<1> QED
  BY <1>4, <1>7, <1>8, <1>9, <1>10, <1>11 DEF Rename

\* Only what is missing is going to be added.
LEMMA AdditionsAreMissing ==
  ASSUME NEW c
  PROVE  \A a \in DOMAIN Additions(c) : a \in Standards /\ standard[c][a] = Nothing
  BY DEF Additions

\* An attribute of a contact is written by n (a migrator, or Nothing for the user): whoever else is
\* going to add it is late.
OthersStay(c, a) ==
  \A d \in Contacts, b \in Standards : d # c \/ b # a => standard'[d][b] = standard[d][b]

LEMMA WrittenAttribute ==
  ASSUME AdditionsInv, NEW c, NEW a, OthersStay(c, a), NEW n, Given(n, c, a),
         NEW m \in Migrators, m # n, run'[m] = run[m]
  PROVE  AdditionsOK(m)'
<1>1. /\ late \subseteq late'
      /\ a \in Planned(m, c) => <<m, c, a>> \in late'
  BY DEF Given
<1>2. \A d \in Contacts, b \in Standards : d # c \/ b # a => standard'[d][b] = standard[d][b]
  BY DEF OthersStay
<1>3. \A d \in Contacts : Planned(m, d)' = Planned(m, d)
  BY DEF Planned
<1>4. ASSUME NEW d \in Contacts, NEW b \in Planned(m, d)
      PROVE  b \in Standards /\ (standard'[d][b] = Nothing \/ <<m, d, b>> \in late')
  <2>1. b \in Standards /\ (standard[d][b] = Nothing \/ <<m, d, b>> \in late)
    BY <1>4 DEF AdditionsInv, AdditionsOK
  <2> QED
    BY <1>1, <1>2, <1>4, <2>1
<1> QED
  BY <1>3, <1>4 DEF AdditionsInv, AdditionsOK

LEMMA AddKeepsAdditions ==
  ASSUME AdditionsInv, NEW m \in Migrators, Add(m) PROVE AdditionsInv'
<1> DEFINE c == run[m].object
<1>1. PICK a \in DOMAIN run[m].additions :
        /\ \/ standard' = [standard EXCEPT ![c][a] = run[m].additions[a]] /\ Given(m, c, a)
           \/ UNCHANGED <<standard, late>>
        /\ run' = [run EXCEPT ![m].additions =
                     [b \in DOMAIN run[m].additions \ {a} |-> run[m].additions[b]]]
  BY DEF Add
<1>2. /\ run[m].at = "contacts" /\ running' = running
      /\ DOMAIN run = Migrators /\ DOMAIN run[m] = Fields /\ AdditionsOK(m)
  BY DEF Add, AdditionsInv
<1>3. /\ OthersRun(m) /\ DOMAIN run'[m] = Fields /\ run'[m].at = "contacts" /\ run'[m].object = c
      /\ DOMAIN run'[m].additions = DOMAIN run[m].additions \ {a}
  BY <1>1, <1>2 DEF OthersRun, Fields
<1>4. \A d \in Contacts : Planned(m, d)' = Planned(m, d) \ {a}
  BY <1>3 DEF Planned
<1>5. late \subseteq late'
  BY <1>1 DEF Given
<1>6. AdditionsOK(m)'
  <2>1. ASSUME NEW d \in Contacts, NEW b \in Planned(m, d), b # a PROVE standard'[d][b] = standard[d][b]
    BY <1>1, <1>2, <2>1 DEF AdditionsInv, AdditionsOK
  <2> QED
    BY <1>2, <1>3, <1>4, <1>5, <2>1 DEF AdditionsOK
<1>7. CASE UNCHANGED <<standard, late>>
  BY <1>2, <1>3, <1>6, <1>7, ReadsContacts DEF AdditionsInv
<1>8. CASE standard' = [standard EXCEPT ![c][a] = run[m].additions[a]] /\ Given(m, c, a)
  <2>1. ASSUME NEW n \in Migrators, n # m PROVE AdditionsOK(n)' /\ DOMAIN run'[n] = Fields
    <3>1. run'[n] = run[n]
      BY <1>3, <2>1 DEF OthersRun
    <3>2. OthersStay(c, a)
      BY <1>8 DEF AdditionsInv, OthersStay
    <3> QED
      BY <1>8, <2>1, <3>1, <3>2, WrittenAttribute, Zenon DEF AdditionsInv
  <2>2. DOMAIN standard' = Contacts /\ \A d \in Contacts : DOMAIN standard'[d] = Standards
    BY <1>8 DEF AdditionsInv
  <2>3. ~running' => run'[Server].at \notin {"people", "contacts"}
    BY <1>2, <1>3 DEF AdditionsInv, OthersRun, Migrators
  <2> QED
    BY <1>3, <1>6, <2>1, <2>2, <2>3 DEF AdditionsInv, OthersRun
<1> QED
  BY <1>1, <1>7, <1>8

LEMMA PeopleKeepsAdditions ==
  ASSUME AdditionsInv, NEW m \in Migrators, People(m) PROVE AdditionsInv'
<1>1. DOMAIN run = Migrators /\ DOMAIN run[m] = Fields /\ AdditionsOK(m)
  BY DEF AdditionsInv
<1>2. CASE Add(m)
  BY <1>2, AddKeepsAdditions
<1>3. CASE BeginPeople(m)
  <2>1. PICK found : run' = [run EXCEPT ![m].todo = found, ![m].at = "contacts"]
    BY <1>3 DEF BeginPeople
  <2>2. UNCHANGED <<standard, running, late>> /\ run[m].at = "people"
    BY <1>3 DEF BeginPeople, files, history
  <2>3. OthersRun(m) /\ DOMAIN run'[m] = Fields /\ run'[m].additions = run[m].additions
    BY <1>1, <2>1 DEF OthersRun, Fields
  <2> QED
    BY <1>1, <2>2, <2>3, AddsNothing DEF AdditionsOK, AdditionsInv
<1>4. CASE LookAt(m)
  <2>1. PICK c \in run[m].todo :
          run' = [run EXCEPT ![m].todo = run[m].todo \ {c}, ![m].object = c, ![m].additions = Additions(c)]
    BY <1>4 DEF LookAt
  <2>2. UNCHANGED <<standard, running, late>> /\ run[m].at = "contacts"
    BY <1>4 DEF LookAt, files, history
  <2>3. /\ OthersRun(m) /\ DOMAIN run'[m] = Fields /\ run'[m].additions = Additions(c)
        /\ run'[m].at = "contacts" /\ run'[m].object = c
    BY <1>1, <2>1, <2>2 DEF OthersRun, Fields
  <2>4. AdditionsOK(m)'
    BY <2>2, <2>3, AdditionsAreMissing DEF AdditionsOK, Planned
  <2> QED
    BY <2>2, <2>3, <2>4, ReadsContacts DEF AdditionsInv
<1>5. CASE Added(m)
  <2>1. UNCHANGED <<standard, running, late>> /\ run[m].at = "contacts" /\ run[m].additions = <<>>
    BY <1>5 DEF Added, files, history
  <2>2. /\ OthersRun(m) /\ DOMAIN run'[m] = Fields /\ run'[m].additions = <<>>
        /\ run'[m].at = "contacts"
    BY <1>1, <1>5, <2>1 DEF Added, OthersRun, Fields
  <2> QED
    BY <2>1, <2>2, AddsNothing DEF AdditionsInv
<1>6. CASE EndPeople(m)
  <2>1. UNCHANGED <<standard, running, late>> /\ OthersRun(m) /\ run'[m] = Resting
    BY <1>1, <1>6 DEF EndPeople, files, history, OthersRun
  <2> QED
    BY <2>1, AddsNothing, RestingAddsNothing
<1> QED
  BY <1>2, <1>3, <1>4, <1>5, <1>6 DEF People

LEMMA NextKeepsAdditions == ASSUME AdditionsInv, [Next]_vars PROVE AdditionsInv'
<1> USE DEF Migrators
<1>1. DOMAIN run = Migrators /\ \A m \in Migrators : DOMAIN run[m] = Fields /\ AdditionsOK(m)
  BY DEF AdditionsInv
<1>2. ASSUME NEW m \in Migrators, Rename(m) PROVE AdditionsInv'
  BY <1>2, RenameKeepsAdditions
<1>3. ASSUME NEW m \in Migrators, People(m) PROVE AdditionsInv'
  BY <1>3, PeopleKeepsAdditions
<1>4. ASSUME NEW m \in Migrators, StartPeople(m) PROVE AdditionsInv'
  <2>1. UNCHANGED <<standard, running, late>> /\ run[m] = Resting /\ (m = Server => running)
    BY <1>4 DEF StartPeople, files
  <2>2. OthersRun(m) /\ DOMAIN run'[m] = Fields /\ run'[m].additions = Resting.additions
    BY <1>1, <1>4, <2>1 DEF StartPeople, OthersRun, Fields
  <2> QED
    BY <2>1, <2>2, AddsNothing, RestingAddsNothing
<1>5. CASE ReadRelations \/ WriteRelations
  BY <1>5 DEF ReadRelations, WriteRelations, files, AdditionsInv, AdditionsOK, Planned
<1>6. CASE EditContact
  <2>1. UNCHANGED <<running, run>>
    BY <1>6 DEF EditContact
  <2>2. CASE UNCHANGED <<standard, late>>
    BY <2>1, <2>2 DEF AdditionsInv, AdditionsOK, Planned
  <2>3. ASSUME NEW c \in Contacts, NEW a \in Standards, NEW text,
               standard' = [standard EXCEPT ![c][a] = text], Given(Nothing, c, a)
        PROVE  AdditionsInv'
    <3>1. ASSUME NEW m \in Migrators PROVE AdditionsOK(m)'
      <4>1. m # Nothing /\ run'[m] = run[m]
        BY <2>1, MigrationsAssumption
      <4>2. OthersStay(c, a)
        BY <2>3 DEF AdditionsInv, OthersStay
      <4> QED
        BY <2>3, <4>1, <4>2, WrittenAttribute
    <3>2. DOMAIN standard' = Contacts /\ \A d \in Contacts : DOMAIN standard'[d] = Standards
      BY <2>3 DEF AdditionsInv
    <3> QED
      BY <2>1, <3>1, <3>2 DEF AdditionsInv
  <2> QED
    BY <1>6, <2>2, <2>3 DEF EditContact
<1>7. CASE StartServer
  <2>1. UNCHANGED <<standard, late>> /\ running' = TRUE
        /\ run[Server].at \notin {"people", "contacts"}
    BY <1>7 DEF StartServer, files, AdditionsInv
  <2>2. /\ OthersRun(Server) /\ DOMAIN run'[Server] = Fields /\ run'[Server].at = "asked"
        /\ run'[Server].additions = run[Server].additions
    BY <1>1, <1>7 DEF StartServer, OthersRun, Fields
  <2>3. ASSUME NEW m \in Migrators PROVE AdditionsOK(m)'
    <3>1. CASE m = Server
      BY <1>1, <2>1, <2>2, <3>1 DEF AdditionsOK, Planned
    <3>2. CASE m # Server
      BY <1>1, <2>1, <2>2, <3>2 DEF AdditionsOK, Planned, OthersRun
    <3> QED
      BY <3>1, <3>2
  <2> QED
    BY <2>1, <2>2, <2>3 DEF AdditionsInv, OthersRun
<1>8. CASE StartCli
  <2>1. UNCHANGED <<standard, running, late>> /\ run[Cli] = Resting
    BY <1>8 DEF StartCli, files
  <2>2. OthersRun(Cli) /\ DOMAIN run'[Cli] = Fields /\ run'[Cli].additions = Resting.additions
        /\ Cli # Server
    BY <1>1, <1>8, <2>1, MigrationsAssumption DEF StartCli, OthersRun, Fields
  <2> QED
    BY <2>1, <2>2, AddsNothing, RestingAddsNothing
<1>9. CASE StopServer
  <2>1. UNCHANGED <<standard, late>> /\ OthersRun(Server) /\ run'[Server] = Resting
    BY <1>1, <1>9 DEF StopServer, files, history, OthersRun
  <2>2. ASSUME NEW m \in Migrators PROVE AdditionsOK(m)' /\ DOMAIN run'[m] = Fields
    <3>1. CASE m = Server
      BY <2>1, <3>1, RestingAddsNothing DEF AdditionsOK, Planned
    <3>2. CASE m # Server
      BY <1>1, <2>1, <3>2 DEF AdditionsOK, Planned, OthersRun
    <3> QED
      BY <3>1, <3>2
  <2> QED
    BY <2>1, <2>2, RestingAddsNothing DEF AdditionsInv, OthersRun
<1>10. CASE StopCli
  <2>1. UNCHANGED <<standard, running, late>> /\ OthersRun(Cli) /\ run'[Cli] = Resting
    BY <1>1, <1>10 DEF StopCli, files, history, OthersRun
  <2> QED
    BY <2>1, AddsNothing, RestingAddsNothing
<1>11. CASE UNCHANGED vars
  BY <1>11 DEF vars, files, history, AdditionsInv, AdditionsOK, Planned
<1> QED
  BY <1>2, <1>3, <1>4, <1>5, <1>6, <1>7, <1>8, <1>9, <1>10, <1>11 DEF Next

\* What a contact has already of the standard attributes stays (Migrations::UpsertPeopleAttributes),
\* for any number of contacts and attributes, however they are edited meanwhile and when server
\* and command line go through them at the same time: only what was missing when the contact was
\* looked at is written, and so only what came since is written over.
THEOREM WhatAContactHasStays == Spec => WhatIsThereStays
<1>1. Init => AdditionsInv
  <2> SUFFICES ASSUME Init PROVE AdditionsInv
    OBVIOUS
  <2>1. \A m \in Migrators : run[m] = Resting
    BY DEF Init
  <2>2. ASSUME NEW m \in Migrators PROVE AdditionsOK(m)
    BY <2>1, RestingAddsNothing DEF AdditionsOK, Planned
  <2>3. run[Server].at = "idle" /\ \A m \in Migrators : DOMAIN run[m] = Fields
    BY <2>1, RestingAddsNothing DEF Migrators
  <2> QED
    BY <2>2, <2>3 DEF Init, AdditionsInv
<1>2. ASSUME AdditionsInv, NEW m \in Migrators, NEW c \in Contacts, NEW a \in Standards,
             Add(m), run[m].object = c, standard'[c][a] # standard[c][a]
      PROVE  standard[c][a] = Nothing \/ <<m, c, a>> \in late
  <2>1. PICK b \in DOMAIN run[m].additions :
          standard' = [standard EXCEPT ![c][b] = run[m].additions[b]] \/ standard' = standard
    BY <1>2 DEF Add
  <2>2. a = b
    BY <1>2, <2>1 DEF AdditionsInv
  <2>3. a \in Planned(m, c)
    BY <1>2, <2>1, <2>2 DEF Planned
  <2> QED
    BY <1>2, <2>3 DEF AdditionsInv, AdditionsOK
<1>3. AdditionsInv => \A m \in Migrators, c \in Contacts, a \in Standards :
                        Add(m) /\ run[m].object = c /\ standard'[c][a] # standard[c][a]
                          => standard[c][a] = Nothing \/ <<m, c, a>> \in late
  BY <1>2
<1> QED
  BY <1>1, <1>3, NextKeepsAdditions, PTL DEF Spec, WhatIsThereStays
=============================================================================
