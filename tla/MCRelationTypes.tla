-------------------------- MODULE MCRelationTypes --------------------------
(* An instance of RelationTypes for TLC. *)
EXTENDS RelationTypes

CONSTANTS association, cites, bookmark, super, mail, player, reader

Audio == <<"audio", "mp3">>
Text == <<"text", "plain">>
Topic == <<"classification", "topic">>
AllKinds == {Audio, Text, Topic}
OnlyLabels == {Topic}

\* Restricted at both ends, one way and both ways; at run time only.
OneWay == [Default EXCEPT !.bidirectional = FALSE, !.targets = {<<"text">>}, !.notTargets = {Topic}]
BothWays == [Default EXCEPT !.sources = {<<"text">>, <<"audio">>}, !.notSources = {Audio}]
AtRunTime == [Default EXCEPT !.dynamic = TRUE]

CiteConfigs == {NoConfig, Unreadable, OneWay, BothWays}
ConfigsOfType(T) ==
  CASE T = cites -> CiteConfigs
    [] T = bookmark -> {NoConfig, AtRunTime}
    [] OTHER -> {[Default EXCEPT !.bidirectional = FALSE]}

\* A player for bookmarks, a reader of texts that opens any relation.
DeclaredBy(p) == IF p = player THEN {bookmark} ELSE {super}
ReadBy(p) == IF p = reader THEN {Text} ELSE {}
MappingsOf(p) == IF p = reader THEN <<bookmark, cites>> ELSE <<>>
DefaultOf(p) == IF p = reader THEN cites ELSE NoType

Item(id, fields, nested) == [id |-> id, fields |-> fields, nested |-> nested]
Message(items) == [labelled |-> TRUE, uniform |-> TRUE, items |-> items]
Pages == Message(<<Item("p1", {"label", "page"}, <<>>), Item(NoItemId, {"label"}, <<>>)>>)
Notes == Message(<<Item("n1", {"label", "note"}, <<>>)>>)
Untold == [Pages EXCEPT !.labelled = FALSE]
Uneven == [Notes EXCEPT !.uniform = FALSE]
Chapters == Message(<<Item("c1", {"label", "title"}, <<Pages, Notes>>), Item("c2", {"label"}, <<Untold>>)>>)
Book == Message(<<Item(NoItemId, {"label", "book"}, <<Untold, Chapters>>)>>)
Torn == Message(<<Item("t1", {"label"}, <<Notes, Uneven>>)>>)
AllMessages == {Pages, Notes, Untold, Uneven, Chapters, Book, Torn}
RepliesOf(p) == {Book, Torn, Untold}
AttributeOf(name) == IF name = "page" THEN "SEN:REL:page" ELSE name
=============================================================================
