---------------------------- MODULE CoreSettings ----------------------------
(***************************************************************************)
(* The settings of SEN and of its plugins as the form of the settings      *)
(* application sees them (config/CoreSettings.cpp): what it shows of the    *)
(* settings that are stored, and which changes of it are made.             *)
(*                                                                         *)
(* What is stored is a function of the keys that are there; any program    *)
(* and any version can have written it.  All fields are taken to have      *)
(* values of one kind, so that they can be compared; of which kind a value *)
(* is (a number, a text) is told by HasType.                               *)
(***************************************************************************)
EXTENDS Naturals, Sequences, FiniteSets

CONSTANTS HasType(_, _),  \* whether a value is of the type of a field
          Accepts(_, _),  \* whether it is one of the values of a field
          NoText,         \* the empty text
          Akita           \* whether Akita is installed

CoreFields == <<"key", "fileTypes", "libraryName", "associate", "akita">>
PluginFields == <<"extractInto", "askIfSeveral", "maxEntities">>

\* Akita keeps its setting itself: its field is there if it is.
FieldsOf(form) ==
  LET listed == IF form = "core" THEN CoreFields ELSE PluginFields
  IN  SelectSeq(listed, LAMBDA f : f # "akita" \/ Akita)

Fields(form) == {FieldsOf(form)[i] : i \in DOMAIN FieldsOf(form)}

Standard(f) ==
  CASE f = "key" -> "command"
    [] f = "libraryName" -> "Library"
    [] f = "extractInto" -> "files"
    [] f = "maxEntities" -> "20"
    [] OTHER -> "true"

-----------------------------------------------------------------------------
(* DescribeSettings, DescribePluginSettings *)

\* Fields whose stored value may be none of those that the form offers.
Checked == {"key", "extractInto", "maxEntities"}

Counts(stored, f) ==
  /\ f \in DOMAIN stored /\ HasType(f, stored[f])
  /\ f \in Checked => Accepts(f, stored[f])
  /\ f = "libraryName" => stored[f] # NoText

Shown(stored, f) == IF Counts(stored, f) THEN stored[f] ELSE Standard(f)

Describe(form, stored) == [f \in Fields(form) |-> Shown(stored, f)]

-----------------------------------------------------------------------------
(* ApplySettings, ApplyPluginSettings *)

\* sen::settings::ApplyChanges: a field that the form does not have and a value of another
\* type are refused, the rest is made.
Typed(form, changes) == {f \in DOMAIN changes \cap Fields(form) : HasType(f, changes[f])}

Updated(form, stored, changes) ==
  [f \in Fields(form) |-> IF f \in Typed(form, changes) THEN changes[f] ELSE Shown(stored, f)]

\* Only what differs from what is shown is looked at.
Different(form, stored, changes) ==
  {f \in Fields(form) : Updated(form, stored, changes)[f] # Shown(stored, f)}

Made(form, stored, changes) ==
  {f \in Different(form, stored, changes) : Accepts(f, changes[f])}

\* The updates in the order of the code, each saved by itself.  The setting of Akita is none: a
\* command changes it.
Updates(form, stored, changes) ==
  LET update(f) ==
        IF f \in Made(form, stored, changes) THEN <<[field |-> f, value |-> changes[f]]>> ELSE <<>>
  IN  IF form = "core"
        THEN update("key") \o update("fileTypes") \o update("libraryName") \o update("associate")
        ELSE update("extractInto") \o update("askIfSeveral") \o update("maxEntities")

Refused(form, stored, changes) ==
  (DOMAIN changes \ Typed(form, changes))
    \cup (Different(form, stored, changes) \ Made(form, stored, changes))

ApplyStatus(form, stored, changes) ==
  IF Refused(form, stored, changes) = {} THEN "ok" ELSE "bad value"

=============================================================================
