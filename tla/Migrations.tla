----------------------------- MODULE Migrations -----------------------------
(***************************************************************************)
(* The changes to the data of the user (migrations/Migrations.cpp): the    *)
(* relations of a type that has another name now (RenameRelationTypes),    *)
(* and the standard attributes that the contacts of People get             *)
(* (UpsertPeopleAttributes).  They run in the worker of the server and in  *)
(* the command line, which looks for a running server first, attribute by  *)
(* attribute, while the looper of the server handles requests that change  *)
(* the same attributes and the user edits contacts.  Each of them can be   *)
(* cut off at any time, and the steps run again.                           *)
(***************************************************************************)
EXTENDS Naturals, Sequences, FiniteSets

CONSTANTS Objects,      \* files that have a SEN:ID
          Relation,     \* relations: records of a target and properties
          Messages,     \* the sets of them that are stored at the begin
          Contacts,     \* files of the type of People
          Own,          \* the attributes that People keeps
          SourcesOf,    \* for each standard attribute those of Own, the first that has a value counts
          Listed,       \* the standard attribute that is a list
          Texts,        \* what an attribute can hold: the parts between its commas, <<>> if it is blank
          Nothing,      \* no attribute, or no object
          Server, Cli,
          MaxChanges, MaxFailures, MaxStarts   \* bounds

ASSUME MigrationsAssumption ==
  /\ MaxChanges \in Nat /\ MaxFailures \in Nat /\ MaxStarts \in Nat
  /\ Server # Cli /\ Nothing \notin Objects \cup Contacts \cup {Server, Cli}
  /\ Messages \subseteq SUBSET Relation
  /\ \A message \in SUBSET Relation : message # Nothing

VARIABLES
  relations,  \* of each object and type the message that is stored, or Nothing
  own,        \* the texts of People's attributes, <<>> without one
  standard,   \* the standard attributes, or Nothing
  version,    \* the data version that is recorded
  running,    \* the server runs
  run,        \* what each migrator does: see Resting
  request,    \* what the looper does: the object, type and target, and what it read
  \* history and bounds
  known,      \* the relations that were there or that requests added and did not remove
  doubled,    \* targets that had relations of both types in an object
  stale,      \* objects that were written while another one was between its reading and writing
  late,       \* standard attributes that were written after it was seen that they are missing
  renewed,    \* objects that got relations of the old type from a request
  skipped,    \* objects that could not be read
  changes,    \* requests and edits
  failures, starts

files == <<relations, own, standard>>
history == <<known, doubled, stale, late, renewed, skipped, changes, failures, starts>>
vars == <<files, version, running, run, request, history>>

Migrators == {Server, Cli}

\* The types: of relation.person.knows and relation.person (PersonalRelation)
Types == {"from", "to"}

Standards == DOMAIN SourcesOf

\* A migrator that does nothing: the step it is at, the files to come and the one in hand, what
\* it read (moving) or is to write (moved, additions), and whether something failed.
Resting == [at |-> "idle", todo |-> {}, object |-> Nothing, moving |-> {}, moved |-> {},
            additions |-> <<>>, failed |-> FALSE]

NoRequest == [object |-> Nothing, type |-> "to", read |-> {}, relation |-> Nothing, add |-> TRUE]

Fails == failures < MaxFailures /\ failures' = failures + 1

Changes == changes < MaxChanges /\ changes' = changes + 1

TargetsOf(message) == {r.target : r \in message}

Stored(o, type) == IF relations[o][type] = Nothing THEN {} ELSE relations[o][type]

\* The objects that a migrator or the looper has read and not written yet.
InHandOf(m) == IF run[m].at \in {"to", "write", "remove"} THEN {run[m].object} ELSE {}

-----------------------------------------------------------------------------
(* RenameRelationTypes *)

\* Fault: of several relations to a target one is kept.
MergeOne(moving, into) ==
  into \cup {r \in moving : /\ r.target \notin TargetsOf(into)
                            /\ r = CHOOSE s \in moving : s.target = r.target}

\* A target that is there already stays as it is; of the others all relations are added.
Merge(moving, into) == into \cup {r \in moving : r.target \notin TargetsOf(into)}

\* The next object, and at the end the result.
NextObject(m, failed) ==
  run' = [run EXCEPT ![m] = [Resting EXCEPT !.at = "rename", !.todo = run[m].todo \ {run[m].object},
                                            !.failed = run[m].failed \/ failed]]

\* Run: a step that is recorded does nothing.  Without an index for SEN:ID the query fails.
BeginRename(m) ==
  /\ run[m].at = "asked"
  /\ IF version = 1
     THEN run' = [run EXCEPT ![m] = Resting] /\ UNCHANGED failures
     ELSE \/ run' = [run EXCEPT ![m] = [Resting EXCEPT !.at = "rename", !.todo = Objects]]
             /\ UNCHANGED failures
          \/ run' = [run EXCEPT ![m] = [Resting EXCEPT !.at = "rename", !.failed = TRUE]]
             /\ Fails
  /\ UNCHANGED <<files, version, running, request, known, doubled, stale, late, renewed, skipped,
                 changes, starts>>

\* The relations of the old type.  An object or an attribute that cannot be read is
\* taken for one that has none.
ReadFrom(m) ==
  /\ run[m].at = "rename"
  /\ \E o \in run[m].todo :
       \/ /\ relations[o]["from"] # Nothing
          /\ run' = [run EXCEPT ![m].object = o, ![m].moving = relations[o]["from"], ![m].at = "to"]
          /\ UNCHANGED <<skipped, failures>>
       \/ /\ relations[o]["from"] = Nothing
          /\ run' = [run EXCEPT ![m].todo = @ \ {o}]
          /\ UNCHANGED <<skipped, failures>>
       \/ /\ Fails /\ skipped' = skipped \cup {o}
          /\ run' = [run EXCEPT ![m].todo = @ \ {o}]
  /\ UNCHANGED <<files, version, running, request, known, doubled, stale, late, renewed,
                 changes, starts>>

ReadTo(m) ==
  /\ run[m].at = "to"
  /\ run' = [run EXCEPT ![m].moved = Merge(run[m].moving, Stored(run[m].object, "to")),
                        ![m].at = "write"]
  /\ UNCHANGED <<files, version, running, request, history>>

\* What the looper has read is not what is stored any more.
WrittenByMigrator(o) == stale' = stale \cup ({o} \cap {request.object})

WriteTo(m) ==
  /\ run[m].at = "write"
  /\ \/ /\ relations' = [relations EXCEPT ![run[m].object]["to"] = run[m].moved]
        /\ run' = [run EXCEPT ![m].at = "remove"]
        /\ WrittenByMigrator(run[m].object)
        /\ UNCHANGED failures
     \/ Fails /\ NextObject(m, TRUE) /\ UNCHANGED <<relations, stale>>
  /\ UNCHANGED <<own, standard, version, running, request, known, doubled, late, renewed, skipped,
                 changes, starts>>

\* The old one goes only after the new one is there.  Removing one that is gone fails.
RemoveFrom(m) ==
  /\ run[m].at = "remove"
  /\ \/ /\ relations[run[m].object]["from"] # Nothing
        /\ relations' = [relations EXCEPT ![run[m].object]["from"] = Nothing]
        /\ NextObject(m, FALSE)
        /\ WrittenByMigrator(run[m].object)
        /\ UNCHANGED failures
     \/ /\ \/ Fails
           \/ relations[run[m].object]["from"] = Nothing /\ UNCHANGED failures
        /\ NextObject(m, TRUE)
        /\ UNCHANGED <<relations, stale>>
  /\ UNCHANGED <<own, standard, version, running, request, known, doubled, late, renewed, skipped,
                 changes, starts>>

\* Fault: a step with failures is recorded.
RecordAnyway(m) ==
  /\ run[m].at = "rename" /\ run[m].todo = {}
  /\ version' = 1
  /\ run' = [run EXCEPT ![m] = Resting]
  /\ UNCHANGED <<files, running, request, history>>

\* The version is recorded after a step that is complete.
Record(m) ==
  /\ run[m].at = "rename" /\ run[m].todo = {}
  /\ \/ /\ ~run[m].failed /\ version' = 1 /\ UNCHANGED failures
     \/ /\ ~run[m].failed /\ Fails /\ UNCHANGED version
     \/ run[m].failed /\ UNCHANGED <<version, failures>>
  /\ run' = [run EXCEPT ![m] = Resting]
  /\ UNCHANGED <<files, running, request, known, doubled, stale, late, renewed, skipped,
                 changes, starts>>

Rename(m) ==
  BeginRename(m) \/ ReadFrom(m) \/ ReadTo(m) \/ WriteTo(m) \/ RemoveFrom(m) \/ Record(m)

-----------------------------------------------------------------------------
(* UpsertPeopleAttributes *)

\* The first of the attributes that has a value.
ValueOf(c, sources) ==
  LET filled == SelectSeq(sources, LAMBDA a : own[c][a] # <<>>)
  IN  IF filled = <<>> THEN <<>> ELSE own[c][Head(filled)]

\* "Family, Friends" is a list: blank parts are left out.
Standardised(a, text) == IF a = Listed THEN SelectSeq(text, LAMBDA part : part # "") ELSE text

\* Fault: what the contact has is not looked at.
AdditionsAll(c) ==
  LET all == [a \in Standards |-> Standardised(a, ValueOf(c, SourcesOf[a]))]
  IN  [a \in {b \in Standards : all[b] # <<>>} |-> all[a]]

\* What is to be added: only standard attributes that the contact does not have.
Additions(c) ==
  LET all == [a \in Standards |-> Standardised(a, ValueOf(c, SourcesOf[a]))]
  IN  [a \in {b \in Standards : all[b] # <<>> /\ standard[c][b] = Nothing} |-> all[a]]

\* FindContacts; a contact that cannot be read is left out.
BeginPeople(m) ==
  /\ run[m].at = "people"
  /\ \E found \in SUBSET Contacts :
       run' = [run EXCEPT ![m].todo = found, ![m].at = "contacts"]
  /\ UNCHANGED <<files, version, running, request, history>>

LookAt(m) ==
  /\ run[m].at = "contacts" /\ run[m].object = Nothing
  /\ \E c \in run[m].todo :
       run' = [run EXCEPT ![m].todo = @ \ {c}, ![m].object = c, ![m].additions = Additions(c)]
  /\ UNCHANGED <<files, version, running, request, history>>

\* The additions are written one by one; when one fails the others follow.
Planned(m, c) == IF run[m].object = c THEN DOMAIN run[m].additions ELSE {}

\* Whoever else has seen that the attribute is missing is late.
Given(m, c, a) ==
  late' = late \cup {<<n, c, a>> : n \in {n \in Migrators \ {m} : a \in Planned(n, c)}}

Add(m) ==
  /\ run[m].at = "contacts" /\ run[m].object # Nothing
  /\ LET c == run[m].object IN
     \E a \in DOMAIN run[m].additions :
       /\ \/ /\ standard' = [standard EXCEPT ![c][a] = run[m].additions[a]]
             /\ Given(m, c, a)
             /\ UNCHANGED failures
          \/ Fails /\ UNCHANGED <<standard, late>>
       /\ run' = [run EXCEPT ![m].additions =
                    [b \in DOMAIN run[m].additions \ {a} |-> run[m].additions[b]]]
  /\ UNCHANGED <<relations, own, version, running, request, known, doubled, stale, renewed, skipped,
                 changes, starts>>

Added(m) ==
  /\ run[m].at = "contacts" /\ run[m].object # Nothing /\ run[m].additions = <<>>
  /\ run' = [run EXCEPT ![m].object = Nothing]
  /\ UNCHANGED <<files, version, running, request, history>>

EndPeople(m) ==
  /\ run[m].at = "contacts" /\ run[m].object = Nothing /\ run[m].todo = {}
  /\ run' = [run EXCEPT ![m] = Resting]
  /\ UNCHANGED <<files, version, running, request, history>>

People(m) == BeginPeople(m) \/ LookAt(m) \/ Add(m) \/ Added(m) \/ EndPeople(m)

-----------------------------------------------------------------------------
(* Requests of clients: the looper reads the relations of a type, changes them and writes them *)

ReadRelations ==
  /\ running /\ request = NoRequest
  /\ Changes
  /\ \E o \in Objects, type \in Types, r \in Relation, add \in BOOLEAN :
       request' = [object |-> o, type |-> type, read |-> Stored(o, type), relation |-> r, add |-> add]
  /\ UNCHANGED <<files, version, running, run, known, doubled, stale, late, renewed, skipped,
                 failures, starts>>

WriteRelations ==
  /\ request # NoRequest
  /\ LET o == request.object
         new == IF request.add THEN request.read \cup {request.relation}
                               ELSE request.read \ {request.relation}
         other == CHOOSE type \in Types : type # request.type
     IN
     /\ relations' = [relations EXCEPT ![o][request.type] = IF new = {} THEN Nothing ELSE new]
     /\ known' = [known EXCEPT ![o] = IF request.add THEN @ \cup {request.relation}
                                                     ELSE @ \ {request.relation}]
     /\ doubled' = [doubled EXCEPT ![o] =
                      @ \cup (TargetsOf(new) \cap TargetsOf(Stored(o, other)))]
     /\ stale' = stale \cup ({o} \cap (InHandOf(Server) \cup InHandOf(Cli)))
     /\ renewed' = IF request.type = "from" /\ new # {} THEN renewed \cup {o} ELSE renewed
  /\ request' = NoRequest
  /\ UNCHANGED <<own, standard, version, running, run, late, skipped, changes, failures, starts>>

-----------------------------------------------------------------------------
(* The user, and the processes *)

EditContact ==
  /\ Changes
  /\ \E c \in Contacts, text \in Texts :
       \/ /\ \E a \in Own : own' = [own EXCEPT ![c][a] = text]
          /\ UNCHANGED <<standard, late>>
       \/ /\ \E a \in Standards :
               standard' = [standard EXCEPT ![c][a] = text] /\ Given(Nothing, c, a)
          /\ UNCHANGED own
  /\ UNCHANGED <<relations, version, running, run, request, known, doubled, stale, renewed, skipped,
                 failures, starts>>

Starts == starts < MaxStarts /\ starts' = starts + 1

\* The server runs the steps when it starts.
StartServer ==
  /\ ~running /\ Starts
  /\ running' = TRUE
  /\ run' = [run EXCEPT ![Server].at = "asked"]
  /\ UNCHANGED <<files, version, request, known, doubled, stale, late, renewed, skipped,
                 changes, failures>>

\* sen migrate: refuses when the server runs; a server that starts afterwards is not seen.
StartCli ==
  /\ ~running /\ run[Cli] = Resting /\ Starts
  /\ run' = [run EXCEPT ![Cli].at = "asked"]
  /\ UNCHANGED <<files, version, running, request, known, doubled, stale, late, renewed, skipped,
                 changes, failures>>

\* The user said yes to the question of the server, or asks for it: sen migrate person.
StartPeople(m) ==
  /\ m = Server => running
  /\ run[m] = Resting /\ Starts
  /\ run' = [run EXCEPT ![m].at = "people"]
  /\ UNCHANGED <<files, version, running, request, known, doubled, stale, late, renewed, skipped,
                 changes, failures>>

StopServer ==
  /\ running
  /\ running' = FALSE
  /\ run' = [run EXCEPT ![Server] = Resting]
  /\ request' = NoRequest
  /\ UNCHANGED <<files, version, history>>

StopCli ==
  /\ run[Cli] # Resting
  /\ run' = [run EXCEPT ![Cli] = Resting]
  /\ UNCHANGED <<files, version, running, request, history>>

-----------------------------------------------------------------------------

Init ==
  /\ relations \in [Objects -> [Types -> Messages \cup {Nothing}]]
  /\ own = [c \in Contacts |-> [a \in Own |-> <<>>]]
  /\ standard = [c \in Contacts |-> [a \in Standards |-> Nothing]]
  /\ version = 0 /\ running = FALSE
  /\ run = [m \in Migrators |-> Resting]
  /\ request = NoRequest
  /\ known = [o \in Objects |-> Stored(o, "from") \cup Stored(o, "to")]
  /\ doubled = [o \in Objects |-> TargetsOf(Stored(o, "from")) \cap TargetsOf(Stored(o, "to"))]
  /\ stale = {} /\ late = {} /\ renewed = {} /\ skipped = {}
  /\ changes = 0 /\ failures = 0 /\ starts = 0

Next ==
  \/ \E m \in Migrators : Rename(m) \/ People(m) \/ StartPeople(m)
  \/ ReadRelations \/ WriteRelations
  \/ EditContact
  \/ StartServer \/ StartCli \/ StopServer \/ StopCli

Spec == Init /\ [][Next]_vars

-----------------------------------------------------------------------------
(* Properties *)

TypeOK ==
  /\ relations \in [Objects -> [Types -> (SUBSET Relation) \cup {Nothing}]]
  /\ \A c \in Contacts, a \in Standards : standard[c][a] # <<>>
  /\ version \in 0..1 /\ running \in BOOLEAN
  /\ \A m \in Migrators :
       /\ run[m].todo \subseteq Objects \cup Contacts
       /\ run[m].at \in {"to", "write", "remove"} => run[m].object \in Objects
       /\ DOMAIN run[m].additions \subseteq Standards
  /\ request.object \in Objects => running

\* No relation is lost when the types are renamed, also when a step is cut off, fails for some
\* objects, runs again or runs twice at a time (a server started after sen migrate looked for
\* it): of each object all relations, of several to one target each, are stored under the
\* old or the new type.  Left out are targets that had relations of both types (those of the
\* new one stay), and objects that a request changed between the reading and the writing.
RelationsSurvive ==
  \A o \in Objects \ stale : \A r \in known[o] :
    r \in Stored(o, "from") \cup Stored(o, "to") \/ r.target \in doubled[o]

\* A step that is recorded is complete: an object that could be read has no relations of the old
\* type, unless a request added them.
RecordedIsRenamed ==
  version = 1 => \A o \in Objects \ (renewed \cup skipped) : relations[o]["from"] = Nothing

\* Migrations.h: "What the contact has already of the new ones stays (a name that was edited since
\* is not made the old one again)", unless it got it after the step had seen that it is
\* missing.
WhatIsThereStays ==
  [][\A m \in Migrators, c \in Contacts, a \in Standards :
       Add(m) /\ run[m].object = c /\ standard'[c][a] # standard[c][a]
         => standard[c][a] = Nothing \/ <<m, c, a>> \in late]_vars
=============================================================================
