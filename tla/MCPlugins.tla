----------------------------- MODULE MCPlugins ------------------------------
(* A book and a paper with a plugin each, of which one runs in one instance only, and a *)
(* file that no plugin handles. *)
EXTENDS Plugins

MCEnrichedBy == <<"papers", "books">>
MCSupports(p, f) == <<p, f>> \in {<<"papers", "paper">>, <<"books", "book">>, <<"books", "paper">>}
MCEnrichable(r) == IF r = "r1" THEN {<<"paper", "note">>} ELSE {<<>>, <<"note">>, <<"book">>}
=============================================================================
