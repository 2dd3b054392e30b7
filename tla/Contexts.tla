------------------------------ MODULE Contexts ------------------------------
(***************************************************************************)
(* Contexts and classifications as folders and files, and the requests for *)
(* them (config/SenConfigHandler.cpp): a context is a folder, with a       *)
(* folder for its classifications that has one for each type, which holds  *)
(* a file for each classification.  Files have a type of their own.        *)
(*                                                                         *)
(* A request runs in the looper of the server; each of its steps on the    *)
(* disk may fail, and leaves what was done before.                         *)
(***************************************************************************)
EXTENDS Naturals, FiniteSets

CONSTANTS Default,    \* the context that is every file
          Legacy,     \* what it was called before
          Others,     \* names of other contexts
          Types,      \* types of classifications
          Names,      \* of classifications
          Old(_),     \* what a type was called by an older version
          NoType,     \* of a file that has none
          Any,        \* an empty name or type in a request
          MaxFailures,\* bound: steps that fail
          MaxStarts   \* bound: how often the server starts again

ASSUME ContextsAssumption ==
  /\ Default # Legacy /\ Default \notin Others /\ Legacy \notin Others
  /\ \A T \in Types : Old(T) \notin Types
  /\ Any \notin Names
  /\ MaxFailures \in Nat /\ MaxStarts \in Nat

All == {Default, Legacy} \cup Others
Places == All \X Types \X Names
AllTypes == Types \cup {Old(T) : T \in Types} \cup {NoType}

VARIABLES
  contexts,  \* the folders that are there
  holding,   \* those with a folder for classifications
  folders,   \* <<context, type>>: the folders of types
  files,     \* the classifications: a function from some of Places to types
  current,   \* whether the folders of contexts have the type of a context, or an old one
  running,
  made,      \* what requests made, and nobody changed since
  failures, starts

tree == <<contexts, holding, folders, files, current>>
bounds == <<failures, starts>>
vars == <<tree, running, made, bounds>>

Fails == failures < MaxFailures /\ failures' = failures + 1

\* f with g[x] = v.
With(f, x, v) == [y \in DOMAIN f \cup {x} |-> IF y = x THEN v ELSE f[y]]

-----------------------------------------------------------------------------
(* Requests *)

\* GetClassificationDir, to look at: the folder of a type need not be there.
HasDir(c, T) == T \in Types /\ c \in holding

\* GetClassificationDir with create.  The folder is there even if its name for Tracker could not
\* be written, which is an error.
FolderMade(c, T) ==
  /\ HasDir(c, T)
  /\ folders' = folders \cup {<<c, T>>}
  /\ UNCHANGED failures

FolderFails(c, T) ==
  \/ /\ ~HasDir(c, T)
     /\ UNCHANGED <<folders, failures>>
  \/ /\ HasDir(c, T) /\ <<c, T>> \notin folders /\ Fails
     /\ folders' \in {folders, folders \cup {<<c, T>>}}

\* Fault: a file that is there keeps its type.
AddKeepingType(c, T, n) ==
  /\ running
  /\ LET at == <<c, T, n>> IN
     \/ /\ FolderMade(c, T)
        /\ files' = IF at \in DOMAIN files THEN files ELSE With(files, at, T)
        /\ made' = made \cup {at}
     \/ /\ FolderFails(c, T)
        /\ UNCHANGED <<files, made>>
  /\ UNCHANGED <<contexts, holding, current, running, starts>>

\* The file is made, or one that is there is opened; then it gets its type.
AddClassification(c, T, n) ==
  /\ running
  /\ LET at == <<c, T, n>> IN
     \/ /\ FolderMade(c, T)
        /\ files' = With(files, at, T)
        /\ made' = made \cup {at}
     \/ /\ FolderFails(c, T)
        /\ UNCHANGED <<files, made>>
     \/ /\ HasDir(c, T) /\ Fails
        /\ folders' = folders \cup {<<c, T>>}
        /\ files' \in {files, IF at \in DOMAIN files THEN files ELSE With(files, at, NoType)}
        /\ UNCHANGED made
  /\ UNCHANGED <<contexts, holding, current, running, starts>>

\* Its type is that of a context if SetType did not fail; whether the folder for
\* classifications could be made is not looked at.  One that exists is an error.
CreateContext(c) ==
  /\ running
  /\ c \notin contexts
  /\ \/ /\ contexts' = contexts \cup {c} /\ holding' = holding \cup {c}
        /\ current' = current \cup {c}
        /\ UNCHANGED failures
     \/ /\ Fails
        /\ \/ /\ contexts' \in {contexts, contexts \cup {c}}
              /\ UNCHANGED <<holding, current>>
           \/ /\ contexts' = contexts \cup {c} /\ current' = current \cup {c}
              /\ UNCHANGED holding
  /\ UNCHANGED <<folders, files, running, made, starts>>

\* GetClassification: there is a file with the name, of whichever type.
Gets(c, T, n) == HasDir(c, T) /\ <<c, T, n>> \in DOMAIN files

\* FindClassification: those in the folder of the type that have a type, which is the one asked
\* for; the name is optional.
Finds(c, T, n) ==
  {at \in DOMAIN files :
     /\ HasDir(c, T) /\ at[1] = c /\ at[2] = T
     /\ n \in {Any, at[3]}
     /\ files[at] = T}

\* The contexts are all folders in the folder of the contexts, whatever their type.
FindsContexts(n) == {c \in contexts : n \in {Any, c}}

-----------------------------------------------------------------------------
(* Users, and programs that change files *)

Delete(at) ==
  /\ at \in DOMAIN files
  /\ files' = [x \in DOMAIN files \ {at} |-> files[x]]
  /\ made' = made \ {at}
  /\ UNCHANGED <<contexts, holding, folders, current, running, bounds>>

Retype(at) ==
  /\ at \in DOMAIN files
  /\ \E T \in Types \cup {NoType} : files' = [files EXCEPT ![at] = T]
  /\ made' = made \ {at}
  /\ UNCHANGED <<contexts, holding, folders, current, running, bounds>>

-----------------------------------------------------------------------------
(* The start of the server: LoadSettings *)

\* The old default context becomes the new one with all that is in it, unless that is there, or
\* renaming fails.
Rename(c) == IF c = Legacy THEN Default ELSE c

Renamed ==
  [contexts |-> {Rename(c) : c \in contexts}, holding |-> {Rename(c) : c \in holding},
   folders |-> {<<Rename(d[1]), d[2]>> : d \in folders},
   files |-> [at \in {<<Rename(x[1]), x[2], x[3]>> : x \in DOMAIN files} |->
                IF at \in DOMAIN files THEN files[at] ELSE files[<<Legacy, at[2], at[3]>>]],
   current |-> {Rename(c) : c \in current},
   made |-> {<<Rename(x[1]), x[2], x[3]>> : x \in made}]

AsItIs ==
  [contexts |-> contexts, holding |-> holding, folders |-> folders, files |-> files,
   current |-> current, made |-> made]

MigrateDefaultContext ==
  IF Legacy \in contexts /\ Default \notin contexts THEN Renamed ELSE AsItIs

\* The folders that the settings name are made.
EnsurePaths(t) ==
  [t EXCEPT !.contexts = @ \cup {Default}, !.holding = @ \cup {Default},
            !.current = IF Default \in t.contexts THEN @ ELSE @ \cup {Default}]

\* Fault: the type of a context that is right ends the search.
MigrateTypesOfOld(t) ==
  [t EXCEPT !.current = t.contexts,
            !.files = [at \in DOMAIN t.files |->
              IF \E T \in Types : t.files[at] = Old(T) /\ at[1] \notin t.current
                THEN CHOOSE T \in Types : t.files[at] = Old(T) ELSE t.files[at]]]

\* The types of an older version, of the contexts and of all that is in them.
MigrateLegacyTypes(t) ==
  [t EXCEPT !.current = t.contexts,
            !.files = [at \in DOMAIN t.files |->
              IF \E T \in Types : t.files[at] = Old(T)
                THEN CHOOSE T \in Types : t.files[at] = Old(T) ELSE t.files[at]]]

Becomes(t) ==
  /\ contexts' = t.contexts /\ holding' = t.holding /\ folders' = t.folders
  /\ files' = t.files /\ current' = t.current /\ made' = t.made

\* What fails is only logged, and tried again by the next start.
Start ==
  /\ ~running
  /\ running' = TRUE
  /\ \/ Becomes(MigrateLegacyTypes(EnsurePaths(MigrateDefaultContext))) /\ UNCHANGED failures
     \/ Fails /\ \/ Becomes(MigrateLegacyTypes(EnsurePaths(AsItIs)))
                 \/ Becomes(EnsurePaths(MigrateDefaultContext))
  /\ UNCHANGED starts

Stop ==
  /\ running /\ starts < MaxStarts
  /\ starts' = starts + 1
  /\ running' = FALSE
  /\ UNCHANGED <<tree, made, failures>>

-----------------------------------------------------------------------------

\* What older versions left: nothing, or the old default context with classifications.
Init ==
  /\ \/ /\ contexts = {} /\ files = <<>>
     \/ /\ contexts = {Legacy}
        /\ \E some \in SUBSET ({Legacy} \X Types \X Names) :
             files = [at \in some |-> Old(at[2])]
  /\ holding = contexts
  /\ folders = {<<at[1], at[2]>> : at \in DOMAIN files}
  /\ current \in SUBSET contexts
  /\ running = FALSE /\ made = {} 
  /\ failures = 0 /\ starts = 0

Next ==
  \/ \E c \in All, T \in Types \cup {Any}, n \in Names : AddClassification(c, T, n)
  \/ \E c \in All : CreateContext(c)
  \/ \E at \in Places : Delete(at) \/ Retype(at)
  \/ Start \/ Stop

Spec == Init /\ [][Next]_vars

-----------------------------------------------------------------------------
(* Properties *)

TypeOK ==
  /\ contexts \subseteq All /\ holding \subseteq contexts /\ current \subseteq contexts
  /\ folders \subseteq holding \X Types
  /\ DOMAIN files \subseteq Places
  /\ \A at \in DOMAIN files : files[at] \in AllTypes /\ <<at[1], at[2]>> \in folders
  /\ running \in BOOLEAN
  /\ made \subseteq Places

\* A classification that a request made is found, by its name and with all of its type, until a
\* user deletes it or gives it another type: requests that fail half way, other contexts and
\* starts that move the default context do not hide it (AddClassification, FindClassification).
MadeIsFound ==
  \A at \in made :
    /\ Gets(at[1], at[2], at[3])
    /\ Finds(at[1], at[2], at[3]) = {at}
    /\ at \in Finds(at[1], at[2], Any)
    /\ at[1] \in FindsContexts(Any)

\* No classification of an older version stays hidden behind its old type, as long as nothing
\* failed (MigrateLegacyTypes): each that is in its folder is found there.
NothingStaysOld ==
  (running /\ failures = 0) =>
    \A at \in DOMAIN files : files[at] \in Types \cup {NoType}

=============================================================================
