----------------------------- MODULE MCSettings -----------------------------
(* Two contexts besides the default one, one migration, and a form that is sent with *)
(* a key, and with one that is none. *)
EXTENDS Settings

MCHasType(f, v) == v # "number"
MCAccepts(f, v) == f = "key" => v \in {"command", "option"}
MCChanges == {[key |-> "option"], [key |-> "999"]}
=============================================================================
