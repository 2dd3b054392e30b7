-------------------------- MODULE Contexts_proofs ---------------------------
(***************************************************************************)
(* Proofs about Contexts: in any number of contexts and with any number of *)
(* failures and starts, what a request made is found.                      *)
(***************************************************************************)
EXTENDS Contexts, TLAPS

-----------------------------------------------------------------------------
(* The inductive invariant *)

\* Files are in contexts that are there.
PlacesOK ==
  /\ holding \subseteq contexts
  /\ DOMAIN files \subseteq Places
  /\ \A at \in DOMAIN files : at[1] \in contexts

\* What was made is there and has its type.
MadeOK ==
  \A at \in made : at \in DOMAIN files /\ files[at] = at[2] /\ at[1] \in holding

ContextsInv == PlacesOK /\ MadeOK

\* The same of a tree that a start computes.
GoodTree(t) ==
  /\ t.holding \subseteq t.contexts
  /\ DOMAIN t.files \subseteq Places
  /\ \A at \in DOMAIN t.files : at[1] \in t.contexts
  /\ \A at \in t.made : at \in DOMAIN t.files /\ t.files[at] = at[2] /\ at[1] \in t.holding

-----------------------------------------------------------------------------
(* What is made is found *)

LEMMA Triples ==
  ASSUME NEW at \in Places
  PROVE  at = <<at[1], at[2], at[3]>> /\ at[1] \in All /\ at[2] \in Types /\ at[3] \in Names
  BY DEF Places

LEMMA FoundIfMade ==
  ASSUME ContextsInv PROVE MadeIsFound
<1> SUFFICES ASSUME NEW at \in made
             PROVE  /\ Gets(at[1], at[2], at[3])
                    /\ Finds(at[1], at[2], at[3]) = {at}
                    /\ at \in Finds(at[1], at[2], Any)
                    /\ at[1] \in FindsContexts(Any)
  BY DEF MadeIsFound
<1>1. /\ at \in DOMAIN files /\ files[at] = at[2] /\ at[1] \in holding /\ at[1] \in contexts
      /\ at = <<at[1], at[2], at[3]>> /\ at[2] \in Types /\ at[3] \in Names
  BY Triples DEF ContextsInv, MadeOK, PlacesOK
<1>2. Gets(at[1], at[2], at[3])
  BY <1>1 DEF Gets, HasDir
<1>3. at \in Finds(at[1], at[2], at[3]) /\ at \in Finds(at[1], at[2], Any)
  BY <1>1 DEF Finds, HasDir
<1>4. ASSUME NEW x \in Finds(at[1], at[2], at[3]) PROVE x = at
  <2>1. x \in DOMAIN files /\ x[1] = at[1] /\ x[2] = at[2] /\ at[3] \in {Any, x[3]}
    BY DEF Finds
  <2>2. x = <<x[1], x[2], x[3]>>
    BY <2>1, Triples DEF ContextsInv, PlacesOK
  <2>3. x[3] = at[3]
    BY <1>1, <2>1, ContextsAssumption
  <2> QED
    BY <1>1, <2>1, <2>2, <2>3
<1>5. at[1] \in FindsContexts(Any)
  BY <1>1 DEF FindsContexts
<1> QED
  BY <1>2, <1>3, <1>4, <1>5

-----------------------------------------------------------------------------
(* Requests and users *)

LEMMA AddKeeps ==
  ASSUME ContextsInv, NEW c \in All, NEW T, NEW n \in Names, AddClassification(c, T, n)
  PROVE  ContextsInv'
<1> DEFINE at == <<c, T, n>>
<1>1. contexts' = contexts /\ holding' = holding
  BY DEF AddClassification
<1>2. CASE files' = files /\ made' = made
  BY <1>1, <1>2 DEF ContextsInv, PlacesOK, MadeOK
<1>3. ASSUME HasDir(c, T)
      PROVE  /\ at \in Places /\ at[1] = c /\ at[2] = T
             /\ c \in holding /\ c \in contexts
  BY <1>3 DEF HasDir, Places, ContextsInv, PlacesOK
<1>4. ASSUME NEW type, HasDir(c, T), files' = With(files, at, type), at \in made' => type = T,
             made' \subseteq made \cup {at}
      PROVE  ContextsInv'
  <2>1. /\ at \in Places /\ at[1] = c /\ at[2] = T /\ c \in holding /\ c \in contexts
    BY <1>3, <1>4
  <2>2. /\ DOMAIN files' = DOMAIN files \cup {at}
        /\ \A x \in DOMAIN files : x # at => files'[x] = files[x]
        /\ files'[at] = type
    BY <1>4 DEF With
  <2> HIDE DEF at
  <2>3. PlacesOK'
    BY <1>1, <2>1, <2>2 DEF ContextsInv, PlacesOK
  <2>4. MadeOK'
    BY <1>1, <1>4, <2>1, <2>2 DEF ContextsInv, MadeOK
  <2> QED
    BY <2>3, <2>4 DEF ContextsInv
<1>5. CASE FolderMade(c, T) /\ files' = With(files, at, T) /\ made' = made \cup {at}
  BY <1>4, <1>5 DEF FolderMade
<1>6. CASE HasDir(c, T) /\ at \notin DOMAIN files /\ files' = With(files, at, NoType) /\ made' = made
  <2>1. at \notin made
    BY <1>6 DEF ContextsInv, MadeOK
  <2> QED
    BY <1>4, <1>6, <2>1
<1> QED
  BY <1>2, <1>5, <1>6 DEF AddClassification

LEMMA CreateContextKeeps ==
  ASSUME ContextsInv, NEW c \in All, CreateContext(c) PROVE ContextsInv'
<1>1. /\ files' = files /\ made' = made /\ contexts \subseteq contexts' /\ holding \subseteq holding'
      /\ holding' \subseteq contexts'
  BY DEF CreateContext, ContextsInv, PlacesOK
<1> QED
  BY <1>1 DEF ContextsInv, PlacesOK, MadeOK

LEMMA DeleteKeeps ==
  ASSUME ContextsInv, NEW at, Delete(at) PROVE ContextsInv'
<1>1. /\ files' = [x \in DOMAIN files \ {at} |-> files[x]] /\ made' = made \ {at}
      /\ contexts' = contexts /\ holding' = holding
  BY DEF Delete
<1> QED
  BY <1>1 DEF ContextsInv, PlacesOK, MadeOK

LEMMA RetypeKeeps ==
  ASSUME ContextsInv, NEW at, Retype(at) PROVE ContextsInv'
<1>1. PICK T : files' = [files EXCEPT ![at] = T]
  BY DEF Retype
<1>2. made' = made \ {at} /\ contexts' = contexts /\ holding' = holding
  BY DEF Retype
<1> QED
  BY <1>1, <1>2 DEF ContextsInv, PlacesOK, MadeOK

-----------------------------------------------------------------------------
(* The start *)

LEMMA AsItIsGood ==
  ASSUME ContextsInv PROVE GoodTree(AsItIs)
  BY DEF ContextsInv, PlacesOK, MadeOK, GoodTree, AsItIs

LEMMA EnsurePathsGood ==
  ASSUME NEW t, GoodTree(t), DOMAIN t = {"contexts", "holding", "folders", "files", "current", "made"}
  PROVE  GoodTree(EnsurePaths(t)) /\ DOMAIN EnsurePaths(t) = DOMAIN t
<1> DEFINE u == EnsurePaths(t)
<1>1. /\ u.contexts = t.contexts \cup {Default} /\ u.holding = t.holding \cup {Default}
      /\ u.files = t.files /\ u.made = t.made /\ DOMAIN u = DOMAIN t
  BY DEF EnsurePaths
<1> QED
  BY <1>1 DEF GoodTree

\* What was made has a type of today, which stays.
LEMMA MigrateLegacyTypesGood ==
  ASSUME NEW t, GoodTree(t), DOMAIN t = {"contexts", "holding", "folders", "files", "current", "made"}
  PROVE  GoodTree(MigrateLegacyTypes(t))
<1> DEFINE u == MigrateLegacyTypes(t)
           moved == [at \in DOMAIN t.files |->
                       IF \E T \in Types : t.files[at] = Old(T)
                         THEN CHOOSE T \in Types : t.files[at] = Old(T) ELSE t.files[at]]
<1>1. u = [t EXCEPT !.current = t.contexts, !.files = moved]
  BY DEF MigrateLegacyTypes
<1>2. DOMAIN moved = DOMAIN t.files
  OBVIOUS
<1>3. ASSUME NEW at \in t.made PROVE at \in DOMAIN t.files /\ moved[at] = at[2] /\ at[1] \in t.holding
  <2>1. at \in DOMAIN t.files /\ t.files[at] = at[2] /\ at[1] \in t.holding
    BY DEF GoodTree
  <2>2. at[2] \in Types
    BY <2>1, Triples DEF GoodTree
  <2>3. ~\E T \in Types : t.files[at] = Old(T)
    BY <2>1, <2>2, ContextsAssumption
  <2> QED
    BY <2>1, <2>3
<1> HIDE DEF moved
<1>4. u.contexts = t.contexts /\ u.holding = t.holding /\ u.files = moved /\ u.made = t.made
  BY <1>1
<1> HIDE DEF u
<1>5. GoodTree(u)
  BY <1>2, <1>3, <1>4 DEF GoodTree
<1> QED
  BY <1>5 DEF u

\* The old default context is renamed only while there is none, so that nothing is in its place.
LEMMA RenamedGood ==
  ASSUME ContextsInv, Legacy \in contexts, Default \notin contexts
  PROVE  GoodTree(Renamed)
<1> DEFINE There(x) == <<Rename(x[1]), x[2], x[3]>>
           moved == [at \in {There(x) : x \in DOMAIN files} |->
                       IF at \in DOMAIN files THEN files[at] ELSE files[<<Legacy, at[2], at[3]>>]]
<1>1. /\ Renamed.contexts = {Rename(c) : c \in contexts}
      /\ Renamed.holding = {Rename(c) : c \in holding}
      /\ Renamed.made = {There(x) : x \in made}
      /\ Renamed.files = moved
  BY DEF Renamed
<1>2. ASSUME NEW x \in DOMAIN files
      PROVE  /\ x = <<x[1], x[2], x[3]>> /\ x[1] \in contexts /\ x[2] \in Types /\ x[3] \in Names
             /\ There(x) \in Places
             /\ There(x)[1] = Rename(x[1]) /\ There(x)[2] = x[2] /\ There(x)[3] = x[3]
  <2>1. x \in Places /\ x[1] \in contexts
    BY DEF ContextsInv, PlacesOK
  <2>2. x = <<x[1], x[2], x[3]>> /\ x[1] \in All /\ x[2] \in Types /\ x[3] \in Names
    BY <2>1, Triples
  <2>3. Rename(x[1]) \in All
    BY <2>2 DEF Rename, All
  <2>4. There(x) \in Places
    BY <2>2, <2>3 DEF Places
  <2> QED
    BY <2>1, <2>2, <2>4
<1>3. ASSUME NEW x \in made
      PROVE  There(x) \in DOMAIN moved /\ moved[There(x)] = There(x)[2]
             /\ There(x)[1] \in {Rename(c) : c \in holding}
  <2>1. x \in DOMAIN files /\ files[x] = x[2] /\ x[1] \in holding
    BY DEF ContextsInv, MadeOK
  <2>2. There(x) \in DOMAIN moved
    BY <2>1
  <2>3. CASE x[1] = Legacy
    <3>1. There(x)[1] = Default /\ <<Legacy, There(x)[2], There(x)[3]>> = x
      BY <1>2, <2>1, <2>3 DEF Rename
    <3>2. There(x) \notin DOMAIN files
      BY <1>2, <3>1
    <3>3. moved[There(x)] = files[x]
      BY <2>2, <3>1, <3>2
    <3> QED
      BY <1>2, <2>1, <2>2, <3>3
  <2>4. CASE x[1] # Legacy
    <3>1. There(x) = x
      BY <1>2, <2>1, <2>4 DEF Rename
    <3>2. moved[There(x)] = files[x]
      BY <2>1, <2>2, <3>1
    <3> QED
      BY <1>2, <2>1, <2>2, <3>2
  <2> QED
    BY <2>3, <2>4
<1>4. \A at \in DOMAIN moved : at \in Places /\ at[1] \in {Rename(c) : c \in contexts}
  BY <1>2
<1>5. Renamed.holding \subseteq Renamed.contexts
  BY <1>1 DEF ContextsInv, PlacesOK
<1> QED
  <2>1. DOMAIN Renamed.files \subseteq Places /\ \A at \in DOMAIN Renamed.files : at[1] \in Renamed.contexts
    BY <1>1, <1>4
  <2>2. \A at \in Renamed.made : at \in DOMAIN Renamed.files /\ Renamed.files[at] = at[2]
                                 /\ at[1] \in Renamed.holding
    <3> SUFFICES ASSUME NEW at \in Renamed.made
                 PROVE  at \in DOMAIN Renamed.files /\ Renamed.files[at] = at[2]
                        /\ at[1] \in Renamed.holding
      OBVIOUS
    <3> PICK x \in made : at = There(x)
      BY <1>1
    <3>1. There(x) \in DOMAIN moved /\ moved[There(x)] = There(x)[2]
          /\ There(x)[1] \in {Rename(c) : c \in holding}
      BY <1>3
    <3> HIDE DEF moved, There
    <3> QED
      BY <1>1, <3>1
  <2> QED
    BY <1>5, <2>1, <2>2 DEF GoodTree

LEMMA StartKeeps ==
  ASSUME ContextsInv, Start PROVE ContextsInv'
<1> DEFINE Tree == {"contexts", "holding", "folders", "files", "current", "made"}
<1>1. GoodTree(AsItIs) /\ DOMAIN AsItIs = Tree
  BY AsItIsGood DEF AsItIs
<1>2. GoodTree(MigrateDefaultContext) /\ DOMAIN MigrateDefaultContext = Tree
  <2>1. CASE Legacy \in contexts /\ Default \notin contexts
    <3>1. MigrateDefaultContext = Renamed /\ DOMAIN Renamed = Tree
      BY <2>1 DEF MigrateDefaultContext, Renamed
    <3> QED
      BY <2>1, <3>1, RenamedGood
  <2>2. CASE ~(Legacy \in contexts /\ Default \notin contexts)
    BY <1>1, <2>2 DEF MigrateDefaultContext
  <2> QED
    BY <2>1, <2>2
<1>3. ASSUME NEW t, GoodTree(t), Becomes(t) PROVE ContextsInv'
  BY <1>3 DEF GoodTree, Becomes, ContextsInv, PlacesOK, MadeOK
<1>4. CASE Becomes(MigrateLegacyTypes(EnsurePaths(MigrateDefaultContext)))
  BY <1>2, <1>3, <1>4, EnsurePathsGood, MigrateLegacyTypesGood
<1>5. CASE Becomes(MigrateLegacyTypes(EnsurePaths(AsItIs)))
  BY <1>1, <1>3, <1>5, EnsurePathsGood, MigrateLegacyTypesGood
<1>6. CASE Becomes(EnsurePaths(MigrateDefaultContext))
  BY <1>2, <1>3, <1>6, EnsurePathsGood
<1> QED
  BY <1>4, <1>5, <1>6 DEF Start

-----------------------------------------------------------------------------
(* The theorem *)

LEMMA ContextsInit ==
  ASSUME Init PROVE ContextsInv
<1>1. holding = contexts /\ made = {}
  BY DEF Init
<1>2. CASE contexts = {} /\ files = <<>>
  <2>1. DOMAIN files = {}
    BY <1>2
  <2> QED
    BY <1>1, <2>1 DEF ContextsInv, PlacesOK, MadeOK
<1>3. CASE /\ contexts = {Legacy}
           /\ \E some \in SUBSET ({Legacy} \X Types \X Names) : files = [at \in some |-> Old(at[2])]
  <2> PICK some \in SUBSET ({Legacy} \X Types \X Names) : files = [at \in some |-> Old(at[2])]
    BY <1>3
  <2>1. DOMAIN files = some
    OBVIOUS
  <2>2. \A at \in some : at \in Places /\ at[1] = Legacy
    BY DEF Places, All
  <2> QED
    BY <1>1, <1>3, <2>1, <2>2 DEF ContextsInv, PlacesOK, MadeOK
<1> QED
  BY <1>2, <1>3 DEF Init

LEMMA ContextsNext ==
  ASSUME ContextsInv, [Next]_vars PROVE ContextsInv'
<1>1. CASE \E c \in All, T \in Types \cup {Any}, n \in Names : AddClassification(c, T, n)
  BY <1>1, AddKeeps
<1>2. CASE \E c \in All : CreateContext(c)
  BY <1>2, CreateContextKeeps
<1>3. CASE \E at \in Places : Delete(at) \/ Retype(at)
  BY <1>3, DeleteKeeps, RetypeKeeps
<1>4. CASE Start
  BY <1>4, StartKeeps
<1>5. CASE Stop
  BY <1>5 DEF Stop, tree, ContextsInv, PlacesOK, MadeOK
<1>6. CASE UNCHANGED vars
  BY <1>6 DEF vars, tree, ContextsInv, PlacesOK, MadeOK
<1> QED
  BY <1>1, <1>2, <1>3, <1>4, <1>5, <1>6 DEF Next

\* In any number of contexts, over any number of failures and starts, a classification that a
\* request made is found by its name and its type until a user changes it (AddClassification,
\* MigrateDefaultContext, MigrateLegacyTypes, FindClassification).
THEOREM MadeIsAlwaysFound == Spec => []MadeIsFound
<1>1. ContextsInv /\ [Next]_vars => ContextsInv'
  BY ContextsNext
<1>2. ContextsInv => MadeIsFound
  BY FoundIfMade
<1> QED
  BY <1>1, <1>2, ContextsInit, PTL DEF Spec

-----------------------------------------------------------------------------
(* Types *)

TypesInv == TypeOK /\ failures \in Nat

\* The same of a tree that a start computes.
TypedTree(t) ==
  /\ DOMAIN t = {"contexts", "holding", "folders", "files", "current", "made"}
  /\ t.contexts \subseteq All /\ t.holding \subseteq t.contexts /\ t.current \subseteq t.contexts
  /\ t.folders \subseteq t.holding \X Types
  /\ DOMAIN t.files \subseteq Places
  /\ \A at \in DOMAIN t.files : t.files[at] \in AllTypes /\ <<at[1], at[2]>> \in t.folders
  /\ t.made \subseteq Places

\* No file of it has an old type.
NewTypes(t) == \A at \in DOMAIN t.files : t.files[at] \in Types \cup {NoType}

LEMMA AddIsTyped ==
  ASSUME TypesInv, NothingStaysOld, NEW c \in All, NEW T, NEW n \in Names, AddClassification(c, T, n)
  PROVE  TypesInv' /\ NothingStaysOld'
<1> DEFINE at == <<c, T, n>>
<1>1. /\ UNCHANGED <<contexts, holding, current, running>>
      /\ folders' = folders \/ (HasDir(c, T) /\ folders' = folders \cup {<<c, T>>})
      /\ failures' \in Nat /\ (failures' = 0 => failures = 0)
      /\ made' \subseteq made \cup {at} /\ (made' # made => HasDir(c, T))
  BY DEF AddClassification, FolderMade, FolderFails, Fails, TypesInv
<1>2. \/ files' = files
      \/ \E type \in {T, NoType} : HasDir(c, T) /\ folders' = folders \cup {<<c, T>>} /\ files' = With(files, at, type)
  BY DEF AddClassification, FolderMade
<1>3. HasDir(c, T) => T \in Types /\ c \in holding /\ at \in Places
  BY DEF HasDir, Places
<1>4. CASE files' = files
  <2>1. \A x \in DOMAIN files : <<x[1], x[2]>> \in folders'
    BY <1>1 DEF TypesInv, TypeOK
  <2> HIDE DEF at
  <2>2. TypeOK'
    BY <1>1, <1>3, <1>4, <2>1 DEF TypesInv, TypeOK
  <2> QED
    BY <1>1, <1>4, <2>2 DEF TypesInv, NothingStaysOld
<1>5. ASSUME NEW type \in {T, NoType}, HasDir(c, T), folders' = folders \cup {<<c, T>>}, files' = With(files, at, type)
      PROVE  TypesInv' /\ NothingStaysOld'
  <2>1. /\ DOMAIN files' = DOMAIN files \cup {at}
        /\ \A x \in DOMAIN files' : files'[x] = IF x = at THEN type ELSE files[x]
    BY <1>5 DEF With
  <2>2. type \in Types \cup {NoType} /\ type \in AllTypes /\ at \in Places /\ <<c, T>> \in folders'
    BY <1>3, <1>5 DEF AllTypes
  <2>3. at[1] = c /\ at[2] = T
    OBVIOUS
  <2> HIDE DEF at
  <2>4. TypeOK'
    BY <1>1, <1>3, <1>5, <2>1, <2>2, <2>3 DEF TypesInv, TypeOK
  <2>5. NothingStaysOld'
    BY <1>1, <2>1, <2>2 DEF NothingStaysOld
  <2> QED
    BY <1>1, <2>4, <2>5 DEF TypesInv
<1> QED
  BY <1>2, <1>4, <1>5

LEMMA CreateContextIsTyped ==
  ASSUME TypesInv, NothingStaysOld, NEW c \in All, CreateContext(c)
  PROVE  TypesInv' /\ NothingStaysOld'
<1>1. /\ UNCHANGED <<folders, files, running, made>>
      /\ contexts' \in {contexts, contexts \cup {c}}
      /\ holding \subseteq holding' /\ holding' \subseteq contexts' /\ current' \subseteq contexts'
      /\ failures' \in Nat /\ (failures' = 0 => failures = 0)
  BY DEF CreateContext, Fails, TypesInv, TypeOK
<1>2. TypeOK'
  BY <1>1 DEF TypesInv, TypeOK
<1> QED
  BY <1>1, <1>2 DEF TypesInv, NothingStaysOld

LEMMA UserIsTyped ==
  ASSUME TypesInv, NothingStaysOld, NEW at, Delete(at) \/ Retype(at)
  PROVE  TypesInv' /\ NothingStaysOld'
<1>1. /\ UNCHANGED <<contexts, holding, folders, current, running, failures>>
      /\ made' \subseteq made
  BY DEF Delete, Retype, bounds
<1>2. /\ DOMAIN files' \subseteq DOMAIN files
      /\ \A x \in DOMAIN files' : files'[x] = files[x] \/ files'[x] \in Types \cup {NoType}
  <2>1. CASE Delete(at)
    BY <2>1 DEF Delete
  <2>2. CASE Retype(at)
    BY <2>2 DEF Retype
  <2> QED
    BY <2>1, <2>2
<1>3. Types \cup {NoType} \subseteq AllTypes
  BY DEF AllTypes
<1>4. TypeOK'
  BY <1>1, <1>2, <1>3 DEF TypesInv, TypeOK
<1> QED
  BY <1>1, <1>2, <1>4 DEF TypesInv, NothingStaysOld

LEMMA EnsurePathsTyped ==
  ASSUME NEW t, TypedTree(t) PROVE TypedTree(EnsurePaths(t))
<1> DEFINE u == EnsurePaths(t)
<1>1. /\ u.contexts = t.contexts \cup {Default} /\ u.holding = t.holding \cup {Default}
      /\ u.current \subseteq t.current \cup {Default}
      /\ u.files = t.files /\ u.made = t.made /\ u.folders = t.folders /\ DOMAIN u = DOMAIN t
  BY DEF EnsurePaths, TypedTree
<1> HIDE DEF u
<1>2. TypedTree(u)
  BY <1>1 DEF TypedTree, All
<1> QED
  BY <1>2 DEF u

\* MigrateLegacyTypes leaves no old type.
LEMMA MigrateLegacyTypesTyped ==
  ASSUME NEW t, TypedTree(t)
  PROVE  TypedTree(MigrateLegacyTypes(t)) /\ NewTypes(MigrateLegacyTypes(t))
<1> DEFINE u == MigrateLegacyTypes(t)
           moved == [at \in DOMAIN t.files |->
                       IF \E T \in Types : t.files[at] = Old(T)
                         THEN CHOOSE T \in Types : t.files[at] = Old(T) ELSE t.files[at]]
<1>1. /\ u.contexts = t.contexts /\ u.holding = t.holding /\ u.folders = t.folders
      /\ u.current = t.contexts /\ u.files = moved /\ u.made = t.made /\ DOMAIN u = DOMAIN t
  BY DEF MigrateLegacyTypes, TypedTree
<1>2. ASSUME NEW at \in DOMAIN t.files PROVE moved[at] \in Types \cup {NoType}
  <2>1. t.files[at] \in AllTypes
    BY DEF TypedTree
  <2> QED
    BY <2>1 DEF AllTypes
<1>3. DOMAIN moved = DOMAIN t.files /\ \A at \in DOMAIN t.files : moved[at] \in AllTypes
  BY <1>2 DEF AllTypes
<1> HIDE DEF u, moved
<1>4. TypedTree(u) /\ NewTypes(u)
  BY <1>1, <1>2, <1>3 DEF TypedTree, NewTypes
<1> QED
  BY <1>4 DEF u

LEMMA RenamedTyped ==
  ASSUME TypesInv, Legacy \in contexts
  PROVE  TypedTree(Renamed)
<1> DEFINE There(x) == <<Rename(x[1]), x[2], x[3]>>
           moved == [at \in {There(x) : x \in DOMAIN files} |->
                       IF at \in DOMAIN files THEN files[at] ELSE files[<<Legacy, at[2], at[3]>>]]
           made2 == {There(x) : x \in made}
           folders2 == {<<Rename(d[1]), d[2]>> : d \in folders}
<1>1. /\ DOMAIN Renamed = {"contexts", "holding", "folders", "files", "current", "made"}
      /\ Renamed.contexts = {Rename(c) : c \in contexts}
      /\ Renamed.holding = {Rename(c) : c \in holding}
      /\ Renamed.current = {Rename(c) : c \in current}
      /\ Renamed.made = made2 /\ Renamed.files = moved /\ Renamed.folders = folders2
  BY DEF Renamed
<1>2. \A c \in All : Rename(c) \in All
  BY DEF Rename, All
<1>3. ASSUME NEW x \in Places
      PROVE  /\ There(x) \in Places
             /\ There(x)[1] = Rename(x[1]) /\ There(x)[2] = x[2] /\ There(x)[3] = x[3]
  BY <1>2, Triples DEF Places
<1>4. ASSUME NEW at \in DOMAIN moved
      PROVE  at \in Places /\ moved[at] \in AllTypes /\ <<at[1], at[2]>> \in folders2
  <2> PICK x \in DOMAIN files : at = There(x)
    OBVIOUS
  <2>1. x \in Places /\ files[x] \in AllTypes /\ <<x[1], x[2]>> \in folders
    BY DEF TypesInv, TypeOK
  <2>2. at \in Places /\ at[1] = Rename(x[1]) /\ at[2] = x[2] /\ at[3] = x[3]
    BY <1>3, <2>1
  <2>3. <<at[1], at[2]>> \in folders2
    <3>1. <<Rename(<<x[1], x[2]>>[1]), <<x[1], x[2]>>[2]>> \in folders2
      BY <2>1
    <3> QED
      BY <2>2, <3>1
  <2>4. moved[at] \in AllTypes
    <3>1. CASE at \in DOMAIN files
      BY <3>1 DEF TypesInv, TypeOK
    <3>2. CASE at \notin DOMAIN files
      <4>1. x = <<x[1], x[2], x[3]>>
        BY <2>1, Triples
      <4>2. x[1] = Legacy
        BY <2>2, <3>2, <4>1 DEF Rename
      <4>3. <<Legacy, at[2], at[3]>> = x
        BY <2>2, <4>1, <4>2
      <4> QED
        BY <2>1, <3>2, <4>3
    <3> QED
      BY <3>1, <3>2
  <2> QED
    BY <2>2, <2>3, <2>4
<1>5. made2 \subseteq Places
  BY <1>3 DEF TypesInv, TypeOK
<1>6. folders2 \subseteq {Rename(c) : c \in holding} \X Types
  <2> SUFFICES ASSUME NEW d \in folders PROVE <<Rename(d[1]), d[2]>> \in {Rename(c) : c \in holding} \X Types
    OBVIOUS
  <2>1. d[1] \in holding /\ d[2] \in Types
    BY DEF TypesInv, TypeOK
  <2> QED
    BY <2>1
<1>7. /\ {Rename(c) : c \in contexts} \subseteq All
      /\ {Rename(c) : c \in holding} \subseteq {Rename(c) : c \in contexts}
      /\ {Rename(c) : c \in current} \subseteq {Rename(c) : c \in contexts}
  BY <1>2 DEF TypesInv, TypeOK
<1> HIDE DEF moved, made2, folders2
<1> QED
  BY <1>1, <1>4, <1>5, <1>6, <1>7 DEF TypedTree

LEMMA StartIsTyped ==
  ASSUME TypesInv, Start PROVE TypesInv' /\ NothingStaysOld'
<1>1. TypedTree(AsItIs)
  BY DEF TypedTree, AsItIs, TypesInv, TypeOK
<1>2. TypedTree(MigrateDefaultContext)
  BY <1>1, RenamedTyped DEF MigrateDefaultContext
<1>3. running' = TRUE
  BY DEF Start
<1>4. ASSUME NEW t, TypedTree(t), Becomes(t) PROVE TypeOK' /\ (NewTypes(t) => NothingStaysOld')
  BY <1>3, <1>4 DEF TypedTree, Becomes, TypeOK, NewTypes, NothingStaysOld
<1>5. CASE Becomes(MigrateLegacyTypes(EnsurePaths(MigrateDefaultContext))) /\ UNCHANGED failures
  BY <1>2, <1>4, <1>5, EnsurePathsTyped, MigrateLegacyTypesTyped DEF TypesInv
<1>6. CASE Fails /\ Becomes(MigrateLegacyTypes(EnsurePaths(AsItIs)))
  BY <1>1, <1>4, <1>6, EnsurePathsTyped, MigrateLegacyTypesTyped DEF TypesInv, Fails
<1>7. CASE Fails /\ Becomes(EnsurePaths(MigrateDefaultContext))
  <2>1. failures' \in Nat /\ failures' # 0
    BY <1>7 DEF TypesInv, Fails
  <2>2. TypeOK'
    BY <1>2, <1>4, <1>7, EnsurePathsTyped
  <2> QED
    BY <2>1, <2>2 DEF TypesInv, NothingStaysOld
<1> QED
  BY <1>5, <1>6, <1>7 DEF Start

LEMMA TypesInit ==
  ASSUME Init PROVE TypesInv /\ NothingStaysOld
<1>1. /\ holding = contexts /\ current \subseteq contexts /\ running = FALSE /\ made = {} /\ failures = 0
      /\ folders = {<<at[1], at[2]>> : at \in DOMAIN files}
  BY DEF Init
<1>2. contexts \subseteq All /\ \A at \in DOMAIN files : at \in contexts \X Types \X Names /\ files[at] \in AllTypes
  <2>1. CASE contexts = {} /\ files = <<>>
    <3>1. DOMAIN files = {}
      BY <2>1
    <3> QED
      BY <2>1, <3>1
  <2>2. CASE /\ contexts = {Legacy}
             /\ \E some \in SUBSET ({Legacy} \X Types \X Names) : files = [at \in some |-> Old(at[2])]
    <3> PICK some \in SUBSET ({Legacy} \X Types \X Names) : files = [at \in some |-> Old(at[2])]
      BY <2>2
    <3>1. ASSUME NEW at \in DOMAIN files PROVE files[at] = Old(at[2]) /\ at[2] \in Types
      OBVIOUS
    <3> QED
      BY <2>2, <3>1 DEF All, AllTypes
  <2> QED
    BY <2>1, <2>2 DEF Init
<1>3. \A at \in DOMAIN files : at \in Places /\ at[1] \in contexts /\ at[2] \in Types
  BY <1>2 DEF Places
<1>4. folders \subseteq holding \X Types
  BY <1>1, <1>3
<1>5. \A at \in DOMAIN files : <<at[1], at[2]>> \in folders
  BY <1>1
<1>6. TypeOK
  BY <1>1, <1>2, <1>3, <1>4, <1>5 DEF TypeOK
<1> QED
  BY <1>1, <1>6 DEF TypesInv, NothingStaysOld

LEMMA TypesNext ==
  ASSUME TypesInv, NothingStaysOld, [Next]_vars PROVE TypesInv' /\ NothingStaysOld'
<1>1. CASE \E c \in All, T \in Types \cup {Any}, n \in Names : AddClassification(c, T, n)
  BY <1>1, AddIsTyped
<1>2. CASE \E c \in All : CreateContext(c)
  BY <1>2, CreateContextIsTyped
<1>3. CASE \E at \in Places : Delete(at) \/ Retype(at)
  BY <1>3, UserIsTyped
<1>4. CASE Start
  BY <1>4, StartIsTyped
<1>5. CASE Stop
  BY <1>5 DEF Stop, tree, TypesInv, TypeOK, NothingStaysOld
<1>6. CASE UNCHANGED vars
  BY <1>6 DEF vars, tree, bounds, TypesInv, TypeOK, NothingStaysOld
<1> QED
  BY <1>1, <1>2, <1>3, <1>4, <1>5, <1>6 DEF Next

\* In any number of contexts, every classification is in a folder that is there, and as long as
\* nothing failed no start leaves an old type (MigrateLegacyTypes).
THEOREM NothingEverStaysOld == Spec => [](TypeOK /\ NothingStaysOld)
<1>1. (TypesInv /\ NothingStaysOld) /\ [Next]_vars => (TypesInv /\ NothingStaysOld)'
  BY TypesNext
<1>2. TypesInv /\ NothingStaysOld => TypeOK /\ NothingStaysOld
  BY DEF TypesInv
<1> QED
  BY <1>1, <1>2, TypesInit, PTL DEF Spec

=============================================================================
