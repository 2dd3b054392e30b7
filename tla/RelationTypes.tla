--------------------------- MODULE RelationTypes ---------------------------
(***************************************************************************)
(* The types of relations, as entries of the MIME database: which of them  *)
(* fit which files, how one that nobody installed gets there, the program  *)
(* that opens the relations of a type (relations/RelationHandler.cpp), and *)
(* the relations that plugins find in files (SelfRelationHandler.cpp).     *)
(*                                                                         *)
(* Users, packages and ontologies change the database and the plugins      *)
(* between any two requests.                                               *)
(***************************************************************************)
EXTENDS PluginResults, FiniteSets

CONSTANTS Types,              \* the relation types
          Association,        \* the type of meta relations
          Supertype,          \* "relation"
          ConfigsOf(_),       \* the entries of a type that come with ontologies
          Kinds,              \* the types of files: sequences, the supertype first
          Labels,             \* those of classifications
          Finders,            \* plugins
          Declares(_),        \* the relation types that a plugin navigates
          Reads(_),           \* the types of files that it finds relations in
          Mappings(_),        \* its type mapping: a sequence of types
          DefaultType(_),     \* its default type, or NoType
          Replies(_),         \* the messages that it replies with
          Apps,               \* programs that users prefer
          Absent, NoConfig, Unreadable,
          NoProgram, NoType, NoReply

\* SelfRelationHandler.cpp 154: "we assume 1:1".
ASSUME OneExtractorAssumption == \A k \in Kinds : Cardinality({p \in Finders : k \in Reads(p)}) <= 1

ASSUME NamesAssumption ==
  /\ Kinds \subseteq Seq(STRING) /\ Labels \subseteq Kinds
  /\ NoType \notin Types /\ NoProgram \notin Finders \cup Apps /\ Absent # NoConfig
  /\ \A p \in Finders : Mappings(p) \in Seq(Types) /\ DefaultType(p) \in Types \cup {NoType}

ASSUME RepliesAssumption == \A p \in Finders : Replies(p) \subseteq Messages

VARIABLES entry,      \* of each type: its config in the MIME database, or Absent
          preferred,  \* the program that opens a type, or NoProgram
          plugins,    \* those that are installed
          known,      \* the plugin config that a client has, for each type of files
          shown       \* the last reply of a plugin and what was made of it

typesVars == <<entry, preferred, plugins, known, shown>>

-----------------------------------------------------------------------------
(* Which files a type fits *)

Default == [bidirectional |-> TRUE, dynamic |-> FALSE, sources |-> {}, notSources |-> {}, targets |-> {}, notTargets |-> {}]

Installed == {T \in Types : entry[T] # Absent}

\* GetRelationConfig fails only where the attribute is there and cannot be read.
Readable(T) == entry[T] # Unreadable

ConfigOf(T) == IF entry[T] \in {Absent, NoConfig} THEN Default ELSE entry[T]

\* A pattern is a type or the start of one.
Matches(kind, patterns) == \E p \in patterns : IsPrefix(p, kind)

Admits(includes, excludes, kind) == (includes = {} \/ Matches(kind, includes)) /\ ~Matches(kind, excludes)

IsCompatibleWithSource(c, kind) == ~c.dynamic /\ Admits(c.sources, c.notSources, kind)

\* The types that a relation can end at: of one that is stored at both ends,
\* those that it can start at unless others are named.
Ends(c) == IF c.targets = {} /\ c.bidirectional THEN c.sources ELSE c.targets

NotEnds(c) == c.notTargets \cup IF c.bidirectional THEN c.notSources ELSE {}

IsCompatibleWithTarget(c, kind) == Admits(Ends(c), NotEnds(c), kind)

\* An association is between a label and a file, any other between two of a kind.
Connects(T, s, t) == IF T = Association THEN (s \in Labels) # (t \in Labels) ELSE (s \in Labels) = (t \in Labels)

GetCompatibleRelations(sources, targets) ==
  {T \in Installed :
     /\ Readable(T) => /\ \A s \in sources : IsCompatibleWithSource(ConfigOf(T), s)
                       /\ \A t \in targets : IsCompatibleWithTarget(ConfigOf(T), t)
     /\ \A s \in sources, t \in targets : Connects(T, s, t)}

\* Fault: the types that the relation excludes at its start are forgotten.
TargetTypesNamed(T) ==
  IF ~Readable(T) THEN [includes |-> {}, excludes |-> {}]
  ELSE [includes |-> Ends(ConfigOf(T)), excludes |-> ConfigOf(T).notTargets]

\* The filter for the templates of "New related".
GetCompatibleTargetTypes(T) ==
  IF T = Association THEN [includes |-> Labels, excludes |-> {}]
  ELSE IF ~Readable(T) THEN [includes |-> {}, excludes |-> {}]
  ELSE [includes |-> Ends(ConfigOf(T)), excludes |-> NotEnds(ConfigOf(T))]

-----------------------------------------------------------------------------
(* The program that opens a type *)

\* Those that declare it, else those that declare the supertype.
Navigators(T) ==
  LET of(U) == {p \in plugins : U \in Declares(p)}
  IN IF of(T) # {} THEN of(T) ELSE of(Supertype)

\* AssignPreferredNavigator: whichever of them the query finds first.
Assign(types) ==
  preferred' \in {a \in [Types -> {NoProgram} \cup Apps \cup Finders] : \A T \in Types :
                   a[T] \in IF T \in types /\ Navigators(T) # {} THEN Navigators(T) ELSE {preferred[T]}}

\* Fault: a type that is put there gets no program.
RegisterQuietly(types) ==
  /\ entry' = [T \in Types |-> IF T \in types /\ entry[T] = Absent THEN NoConfig ELSE entry[T]]
  /\ UNCHANGED preferred

\* GetRelationConfig(s): a type that is not in the database is put there.
Register(types) ==
  /\ entry' = [T \in Types |-> IF T \in types /\ entry[T] = Absent THEN NoConfig ELSE entry[T]]
  /\ Assign({T \in types : entry[T] = Absent})

\* Fault: the program that a type has is not looked at.
Unassigned(T) == T \in Installed

\* AssignMissingNavigators asks for the types that have no preferred program.
Missing(T) == T \in Installed /\ preferred[T] = NoProgram

\* The server starts.
StartServer ==
  /\ Assign({T \in Types : Missing(T)})
  /\ UNCHANGED <<entry, plugins, known, shown>>

-----------------------------------------------------------------------------
(* Requests *)

\* A request that asks for the config of a type: GetRelationsOfType, GetAllRelations...
AskConfig(T) ==
  /\ Register({T})
  /\ UNCHANGED <<plugins, known, shown>>

\* GetPluginsForTypeAndFeature, GetPluginConfig: the one that reads such files.
Extractors(k) == {p \in plugins : k \in Reads(p)}

PluginConfig(k) ==
  [program |-> IF Extractors(k) = {} THEN NoProgram ELSE CHOOSE p \in Extractors(k) : TRUE,
   types |-> {}]

\* What GetSelfRelations makes of the mappings of a plugin: the value of the
\* first mapping (the others are looked up at an index that they do not have),
\* and the default type.
SelfTypes(p) ==
  (IF Mappings(p) = <<>> THEN {} ELSE {Mappings(p)[1]}) \cup ({DefaultType(p)} \ {NoType})

\* The relations of a file to itself; the client keeps the plugin config.
GetSelfRelations(k) ==
  LET c == PluginConfig(k)
      types == IF c.program = NoProgram THEN {} ELSE SelfTypes(c.program)
  IN /\ Register(types)
     /\ known' = [known EXCEPT ![k] = [c EXCEPT !.types = types]]
     /\ UNCHANGED <<plugins, shown>>

\* Those of a type, with the config of an earlier request or a new one.  The
\* plugin may have gone since then, reply with an error, or find nothing.
GetSelfRelationsOfType(k, T, config) ==
  /\ Register({T})
  /\ \/ /\ Readable(T)
        /\ config.program \in plugins
        /\ \E m \in Replies(config.program) :
             shown' = LET made == TransformPluginResult[m] IN
                      IF made.ok THEN [reply |-> m, relations |-> made.relations] ELSE NoReply
     \/ shown' = NoReply
  /\ UNCHANGED <<plugins, known>>

-----------------------------------------------------------------------------
(* What users, packages and ontologies do *)

InstallType(T) ==
  /\ entry' \in {[entry EXCEPT ![T] = c] : c \in ConfigsOf(T) \ {Absent}}
  /\ UNCHANGED <<preferred, plugins, known, shown>>

RemoveType(T) ==
  /\ entry[T] # Absent
  /\ entry' = [entry EXCEPT ![T] = Absent]
  /\ preferred' = [preferred EXCEPT ![T] = NoProgram]
  /\ UNCHANGED <<plugins, known, shown>>

Prefer(T, app) ==
  /\ T \in Installed
  /\ preferred' = [preferred EXCEPT ![T] = app]
  /\ UNCHANGED <<entry, plugins, known, shown>>

ChangePlugins(p) ==
  /\ plugins' = IF p \in plugins THEN plugins \ {p} ELSE plugins \cup {p}
  /\ UNCHANGED <<entry, preferred, known, shown>>

-----------------------------------------------------------------------------

TypesInit ==
  /\ entry = [T \in Types |-> Absent]
  /\ preferred = [T \in Types |-> NoProgram]
  /\ plugins = {}
  /\ known = [k \in Kinds |-> NoReply]
  /\ shown = NoReply

TypesNext ==
  \/ StartServer
  \/ \E T \in Types : AskConfig(T) \/ InstallType(T) \/ RemoveType(T)
  \/ \E T \in Types, app \in Apps : Prefer(T, app)
  \/ \E p \in Finders : ChangePlugins(p)
  \/ \E k \in Kinds : GetSelfRelations(k)
  \/ \E k \in Kinds, T \in Types : \E config \in {PluginConfig(k)} \cup ({known[k]} \ {NoReply}) :
       GetSelfRelationsOfType(k, T, config)

TypesSpec == TypesInit /\ [][TypesNext]_typesVars

-----------------------------------------------------------------------------
(* Properties *)

\* RelationHandler.cpp 456-460, 574-576: what can be dropped onto a file to
\* relate the two can also be made new from a template for that relation, and
\* the other way round: two requests that read the same config agree, in each
\* state of the database.
TemplatesAgree ==
  \A T \in Installed : \A s, t \in Kinds : Connects(T, s, t) =>
    LET template == GetCompatibleTargetTypes(T)
        offered  == Admits(template.includes, template.excludes, t)
    IN /\ T \in GetCompatibleRelations({s}, {t}) => (T = Association /\ s \in Labels) \/ offered
       /\ T # Association /\ offered /\ T \in GetCompatibleRelations({s}, {}) =>
            T \in GetCompatibleRelations({s}, {t})

\* RelationHandler.h 27-30: the program that a user chose for a type, or that
\* an earlier server gave it, stays: no request and no start replaces it, also
\* when a type is asked for that was removed and came back.
ChosenProgramStays ==
  [][\A T \in Types :
       preferred'[T] # preferred[T] =>
         \/ preferred[T] = NoProgram
         \/ \E app \in Apps : Prefer(T, app)
         \/ RemoveType(T)]_typesVars

\* RelationHandler.cpp 1055-1072: when a client is told of the relations of a
\* file to itself, each type of them is in the database, and if it came there
\* by this, it has a program to open it as soon as one is installed.
ToldTypesOpen ==
  [][\A k \in Kinds : known'[k] # known[k] =>
       \A T \in known'[k].types :
         /\ entry'[T] # Absent
         /\ entry[T] = Absent /\ Navigators(T) # {} => preferred'[T] \in Navigators(T)]_typesVars

\* SelfRelationHandler.cpp 390-521: each item that the plugin found is a
\* relation of the answer, with an id, and below the relation of the item that
\* it was found in; nothing is added.
ItemsAreRelations ==
  shown # NoReply => IsComplete(shown.reply, shown.relations)
=============================================================================
