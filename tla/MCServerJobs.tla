---------------------------- MODULE MCServerJobs ----------------------------
(* An instance of ServerJobs for TLC. *)
EXTENDS ServerJobs
=============================================================================
