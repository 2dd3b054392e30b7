---------------------------- MODULE MCMigrations ----------------------------
(* Two targets, one of them with two relations, and a contact that has a phone or two and groups. *)
EXTENDS Migrations

MCRelation == [target : {"t"}, properties : {"p", "q"}] \cup {[target |-> "u", properties |-> "p"]}
MCMessages == {{[target |-> "t", properties |-> p] : p \in {"p", "q"}}, {[target |-> "t", properties |-> "p"]},
               {[target |-> "u", properties |-> "p"]}}
MCSourcesOf == [phone |-> <<"mobile", "home">>, groups |-> <<"group">>]
MCTexts == {<<"", "">>, <<"family", "">>}
=============================================================================
